---- MODULE Spec2Model ----
(***************************************************************************)
(* Relevance gate and pattern extractor of the farm-log summariser.        *)
(*                                                                         *)
(* Texts are sequences of characters.  A character is a one-element        *)
(* string: an ASCII character stands for itself, a Hangul syllable is      *)
(* written as its romanised jamo (initial, vowel, final; the silent        *)
(* initial is "x"), so every Hangul character has at least two letters     *)
(* and never collides with an ASCII character.  The Korean original of     *)
(* each literal is given in the comment next to it.                        *)
(***************************************************************************)
EXTENDS Integers, Sequences, FiniteSets, TLC

(***************************************************************************)
(* Bounds of the model.                                                    *)
(***************************************************************************)
MaxPhrases == 2
MaxThreshold == 2
MaxRows == 3
MaxIngests == 2

(***************************************************************************)
(* Characters and Python str primitives.                                   *)
(***************************************************************************)
None == <<"None">>

Truthy(v) == v # None /\ v # <<>>

Digits == {"0","1","2","3","4","5","6","7","8","9"}

UpperSeq == <<"A","B","C","D","E","F","G","H","I","J","K","L","M",
              "N","O","P","Q","R","S","T","U","V","W","X","Y","Z">>

LowerSeq == <<"a","b","c","d","e","f","g","h","i","j","k","l","m",
              "n","o","p","q","r","s","t","u","v","w","x","y","z">>

UpperLetters == {UpperSeq[i] : i \in DOMAIN UpperSeq}

LowerLetters == {LowerSeq[i] : i \in DOMAIN LowerSeq}

Spaces == {" "}

Punct == {":", ",", ".", "-", "/", "!", "?", "#", "middot"}

Hanja == {"hanja_gwan", "hanja_su"}

IsHangul(c) ==
    c \notin (UpperLetters \cup LowerLetters \cup Digits \cup Spaces \cup Punct \cup Hanja \cup {"_"})

IsWordChar(c) == c \notin (Spaces \cup Punct)

ToLowerChar(c) ==
    IF c \in UpperLetters
    THEN LowerSeq[CHOOSE i \in DOMAIN UpperSeq : UpperSeq[i] = c]
    ELSE c

StrLower(s) == [i \in DOMAIN s |-> ToLowerChar(s[i])]

RECURSIVE LStrip(_)
LStrip(s) == IF s # <<>> /\ Head(s) \in Spaces THEN LStrip(Tail(s)) ELSE s

RECURSIVE RStrip(_)
RStrip(s) ==
    IF s # <<>> /\ s[Len(s)] \in Spaces THEN RStrip(SubSeq(s, 1, Len(s) - 1)) ELSE s

Strip(s) == RStrip(LStrip(s))

StartsAt(text, i, sub) ==
    /\ i + Len(sub) - 1 <= Len(text)
    /\ \A k \in 1..Len(sub) : text[i + k - 1] = sub[k]

Contains(text, sub) == \E i \in 1..(Len(text) + 1) : StartsAt(text, i, sub)

RECURSIVE RemoveSpaces(_)
RemoveSpaces(s) ==
    IF s = <<>> THEN <<>>
    ELSE IF Head(s) = " " THEN RemoveSpaces(Tail(s))
    ELSE <<Head(s)>> \o RemoveSpaces(Tail(s))

(***************************************************************************)
(* Regular expressions (Python re).  A regex is a sequence of items; an    *)
(* item is a literal, an alternation of regexes, one character class with  *)
(* a quantifier, an optional group, or the word boundary \b.               *)
(***************************************************************************)
Lit(s) == [t |-> "lit", s |-> s]

Alt(res) == [t |-> "alt", res |-> res]

AnyOf(ss) == Alt([i \in DOMAIN ss |-> <<Lit(ss[i])>>])

Cls(c) == [t |-> "cls", c |-> c, min |-> 1, max |-> 1]

Opt(c) == [t |-> "cls", c |-> c, min |-> 0, max |-> 1]

Star(c) == [t |-> "cls", c |-> c, min |-> 0, max |-> -1]

Plus(c) == [t |-> "cls", c |-> c, min |-> 1, max |-> -1]

OptGrp(re) == [t |-> "opt", re |-> re]

B == [t |-> "b"]

InClass(cls, c, ic) ==
    CASE cls = "d" -> c \in Digits
      [] cls = "s" -> c \in Spaces
      [] cls = "w" -> IsWordChar(c)
      [] cls = "A-Z_Hangul" ->
            \/ c \in UpperLetters
            \/ ic /\ c \in LowerLetters
            \/ IsHangul(c)
      [] cls = "dash_space" -> c \in {"-", " "}
      [] cls = "comma_space" -> c \in {",", " "}
      [] cls = "comma_dot" -> c \in {",", "."}
      [] cls = "sentence_end" -> c \in {".", "!", "?"}
      [] cls = "Hangul_alnum" ->
            c \in (UpperLetters \cup LowerLetters \cup Digits) \/ IsHangul(c)

LitAt(text, i, s, ic) ==
    /\ i + Len(s) - 1 <= Len(text)
    /\ \A k \in 1..Len(s) :
          IF ic THEN ToLowerChar(text[i + k - 1]) = ToLowerChar(s[k])
          ELSE text[i + k - 1] = s[k]

WordBoundaryAt(text, i) ==
    LET before == i > 1 /\ IsWordChar(text[i - 1])
        after == i <= Len(text) /\ IsWordChar(text[i])
    IN before # after

RunLen(text, i, cls, ic) ==
    LET ok(n) == \A k \in 0..(n - 1) : InClass(cls, text[i + k], ic)
    IN CHOOSE n \in 0..(Len(text) - i + 1) :
          /\ ok(n)
          /\ \A m \in (n + 1)..(Len(text) - i + 1) : ~ok(m)

RECURSIVE Ends(_, _, _, _)
ItemEnds(item, text, i, ic) ==
    CASE item.t = "lit" -> IF LitAt(text, i, item.s, ic) THEN {i + Len(item.s)} ELSE {}
      [] item.t = "alt" -> UNION {Ends(item.res[k], text, i, ic) : k \in DOMAIN item.res}
      [] item.t = "opt" -> {i} \cup Ends(item.re, text, i, ic)
      [] item.t = "b" -> IF WordBoundaryAt(text, i) THEN {i} ELSE {}
      [] item.t = "cls" ->
            LET run == RunLen(text, i, item.c, ic)
                hi == IF item.max = -1 \/ item.max > run THEN run ELSE item.max
            IN {i + n : n \in item.min..hi}

Ends(re, text, i, ic) ==
    IF re = <<>> THEN {i}
    ELSE UNION {Ends(Tail(re), text, j, ic) : j \in ItemEnds(Head(re), text, i, ic)}

Search(re, text, ic) == \E i \in 1..(Len(text) + 1) : Ends(re, text, i, ic) # {}

SetMax(S) == CHOOSE m \in S : \A n \in S : n <= m

FirstMatch(re, text, ic) ==
    LET i == CHOOSE p \in 1..(Len(text) + 1) :
                 /\ Ends(re, text, p, ic) # {}
                 /\ \A q \in 1..(p - 1) : Ends(re, text, q, ic) = {}
    IN SubSeq(text, i, SetMax(Ends(re, text, i, ic)) - 1)

(***************************************************************************)
(* Python's backtracking match: alternatives are tried in the order        *)
(* written, quantifiers are greedy, and the first way that lets the rest   *)
(* of the regex match wins.  MatchEnd is the position after the match      *)
(* that starts at i, or 0.                                                 *)
(***************************************************************************)
Rep(c, min, max) == [t |-> "cls", c |-> c, min |-> min, max |-> max]

\* the element of a one-element set: { f(x) : x \in {e} } evaluates e once
Only(S) == CHOOSE x \in S : TRUE

Bol == [t |-> "bol"]

Eol == [t |-> "eol"]

RECURSIVE MatchEnd(_, _, _, _)
RECURSIVE FirstAlt(_, _, _, _, _, _)
RECURSIVE Greedy(_, _, _, _, _, _)
\* the alternatives res[k..] of an alternation followed by rest
FirstAlt(res, k, rest, text, i, ic) ==
    IF k > Len(res) THEN 0
    ELSE Only({IF e # 0 THEN e ELSE FirstAlt(res, k + 1, rest, text, i, ic) :
                  e \in {MatchEnd(res[k] \o rest, text, i, ic)}})

\* n repetitions of a class, then fewer, down to min, followed by rest
Greedy(n, min, rest, text, i, ic) ==
    IF n < min THEN 0
    ELSE Only({IF e # 0 THEN e ELSE Greedy(n - 1, min, rest, text, i, ic) :
                  e \in {MatchEnd(rest, text, i + n, ic)}})

MatchEnd(re, text, i, ic) ==
    IF re = <<>> THEN i
    ELSE LET item == Head(re)
             rest == Tail(re)
         IN CASE item.t = "lit" ->
                    IF LitAt(text, i, item.s, ic) THEN MatchEnd(rest, text, i + Len(item.s), ic) ELSE 0
              [] item.t = "alt" -> FirstAlt(item.res, 1, rest, text, i, ic)
              [] item.t = "opt" ->
                    Only({IF e # 0 THEN e ELSE MatchEnd(rest, text, i, ic) :
                             e \in {MatchEnd(item.re \o rest, text, i, ic)}})
              [] item.t = "b" -> IF WordBoundaryAt(text, i) THEN MatchEnd(rest, text, i, ic) ELSE 0
              [] item.t = "bol" -> IF i = 1 THEN MatchEnd(rest, text, i, ic) ELSE 0
              [] item.t = "eol" -> IF i = Len(text) + 1 THEN MatchEnd(rest, text, i, ic) ELSE 0
              [] item.t = "cls" ->
                    Only({Greedy(IF item.max = -1 \/ item.max > run THEN run ELSE item.max,
                                 item.min, rest, text, i, ic) :
                             run \in {RunLen(text, i, item.c, ic)}})

\* re.search: the start of the leftmost match, or 0
SearchStart(re, text, ic) ==
    Only({IF at = {} THEN 0 ELSE CHOOSE i \in at : \A j \in at : i <= j :
             at \in {{i \in 1..(Len(text) + 1) : MatchEnd(re, text, i, ic) # 0}}})

\* m.group(0) of re.search, which must match
Group0(re, text, ic) ==
    Only({SubSeq(text, i, MatchEnd(re, text, i, ic) - 1) : i \in {SearchStart(re, text, ic)}})

\* re.sub(re, repl, text) from position i on; no regex used here matches
\* the empty string
RECURSIVE SubFrom(_, _, _, _, _)
SubFrom(re, repl, text, i, ic) ==
    IF i > Len(text) THEN <<>>
    ELSE Only({IF e > i THEN repl \o SubFrom(re, repl, text, e, ic)
               ELSE <<text[i]>> \o SubFrom(re, repl, text, i + 1, ic) :
                  e \in {MatchEnd(re, text, i, ic)}})

ReSub(re, repl, text, ic) == SubFrom(re, repl, text, 1, ic)

\* str.replace(old, new)
RECURSIVE Replace(_, _, _)
Replace(s, old, new) ==
    IF s = <<>> THEN <<>>
    ELSE IF StartsAt(s, 1, old) THEN new \o Replace(SubSeq(s, Len(old) + 1, Len(s)), old, new)
    ELSE <<Head(s)>> \o Replace(Tail(s), old, new)

\* str.rstrip(chars)
RECURSIVE RStripChars(_, _)
RStripChars(s, chars) ==
    IF s # <<>> /\ s[Len(s)] \in chars THEN RStripChars(SubSeq(s, 1, Len(s) - 1), chars) ELSE s

(***************************************************************************)
(* Lexicon (extract.py, app_fastapi.py, gates.py, preprocess.py).          *)
(***************************************************************************)
CROPS ==
    << <<"bae","chu">>, <<"go","chu">>, <<"sa","gwa">>, <<"to","ma","to">>,
    \* 배추  고추  사과  토마토
       <<"gam","ja">>, <<"sang","chu">>, <<"ttal","gi">>, <<"pa","peu","ri","ka">>,
    \* 감자  상추  딸기  파프리카
       <<"xo","xi">>, <<"cham","xoe">>, <<"po","do">>, <<"bog","sung","xa">>,
    \* 오이  참외  포도  복숭아
       <<"sya","xin","meo","seu","kes">> >>
    \* 샤인머스켓

OPERATION_KEYWORDS ==
    { <<"pa","jong">>, <<"jeong","sig">>, <<"xi","sig">>, <<"jeong","ji">>,
    \* 파종  정식  이식  정지
       <<"jeon","jeong">>, <<"jeog","sim">>, <<"xyu","xin">>, <<"gyeol","sog">>,
    \* 전정  적심  유인  결속
       <<"jeog","gwa">>, <<"su","hwag">>, <<"xye","chwi">>, <<"seon","byeol">>,
    \* 적과  수확  예취  선별
       <<"gwan","su">>, <<"hanja_gwan","hanja_su">>, <<"jeom","jeog">>, <<"geub","su">>,
    \* 관수  灌水  점적  급수
       <<"xyang","xaeg">>, <<"si","bi">>, <<"chu","bi">>, <<"mit","geo","reum">>,
    \* 양액  시비  추비  밑거름
       <<"xyeob","myeon","si","bi">>, <<"bang","je">>, <<"xyag","je">>, <<"sal","po">>,
    \* 엽면시비  방제  약제  살포
       <<"je","cho">>, <<"xye","cho">>, <<"meol","ching">>, <<"pi","bog">>,
    \* 제초  예초  멀칭  피복
       <<"gyeong","xun">>, <<"ro","teo","ri">>, <<"du","dug">>, <<"so","dog">>,
    \* 경운  로터리  두둑  소독
       <<"xye","chal">>, <<"geom","jeong">>, <<"xyeob","bun","seog">>, <<"to","xyang","geom","jeong">>,
    \* 예찰  검정  엽분석  토양검정
       <<"hwan","gi">>, <<"cha","gwang">>, <<"bo","xon">>, <<"nan","bang">>,
    \* 환기  차광  보온  난방
       <<"ga","xon">>, <<"jeo","xon">>, <<"ha","xu","seu","gwan","ri">>, <<"po","jang","gwan","ri">> }
    \* 가온  저온  하우스관리  포장관리

DEFAULT_FARM_KEYWORDS ==
    { <<"xyeong","nong">>, <<"nong","xeob">>, <<"nong","sa">>, <<"jag","mog">>,
    \* 영농  농업  농사  작목
       <<"jag","mul">>, <<"jae","bae">>, <<"po","jang">>, <<"ha","xu","seu">>,
    \* 작물  재배  포장  하우스
       <<"gwa","xwon">>, <<"non">>, <<"bat">>, <<"gwan","su">>,
    \* 과원  논  밭  관수
       <<"hanja_gwan","hanja_su">>, <<"si","bi">>, <<"bi","ryo">>, <<"xyeob","myeon","si","bi">>,
    \* 灌水  시비  비료  엽면시비
       <<"bang","je">>, <<"je","cho">>, <<"pa","jong">>, <<"jeong","sig">>,
    \* 방제  제초  파종  정식
       <<"su","hwag">>, <<"jeog","gwa">>, <<"jeon","jeong">>, <<"meol","ching">>,
    \* 수확  적과  전정  멀칭
       <<"nong","xyag">>, <<"R","E","I">>, <<"P","H","I">>, <<"byeong","hae">>,
    \* 농약  REI  PHI  병해
       <<"hae","chung">>, <<"jin","dis","mul">>, <<"chong","chae">>, <<"tan","jeo">>,
    \* 해충  진딧물  총채  탄저
       <<"xyeog","byeong">>, <<"huin","ga","ru">>, <<"no","gyun">>, <<"xeung","xae">>,
    \* 역병  흰가루  노균  응애
       <<"ga","ru","xi">>, <<"bae","chu">>, <<"go","chu">>, <<"sa","gwa">>,
    \* 가루이  배추  고추  사과
       <<"to","ma","to">>, <<"gam","ja">>, <<"sang","chu">>, <<"ttal","gi">>,
    \* 토마토  감자  상추  딸기
       <<"pa","peu","ri","ka">>, <<"xo","xi">>, <<"cham","xoe">>, <<"po","do">>,
    \* 파프리카  오이  참외  포도
       <<"bog","sung","xa">>, <<"sya","xin","meo","seu","kes">>, <<"xal","sokk","gi">>, <<"bong","ji","ssui","xu","gi">>,
    \* 복숭아  샤인머스켓  알솎기  봉지씌우기
       <<"chag","saeg">>, <<"bo","reu","do","xaeg">>, <<"nag","gwa">>, <<"xil","so">>,
    \* 착색  보르도액  낙과  일소
       <<"xyeol","gwa">>, <<"ha","xu","seu","gwan","ri">>, <<"xye","chal">>, <<"xyag","je">>,
    \* 열과  하우스관리  예찰  약제
       <<"sal","po">> }
    \* 살포

AGRI_WHITELIST_PATTERNS ==
    << <<Lit(<<"xal","sokk","gi">>)>>,                                   \* 알솎기
       <<Lit(<<"bong","ji">>), Opt("s"), Lit(<<"ssui","xu","gi">>)>>,           \* 봉지\s?씌우기
       <<Lit(<<"chag","saeg">>)>>,                                     \* 착색
       <<Lit(<<"dang","do">>), Opt("s"), Lit(<<"cheug","jeong">>)>>,             \* 당도\s?측정
       <<Lit(<<"nag","gwa">>)>>,                                     \* 낙과
       <<Lit(<<"xil","so">>)>>,                                     \* 일소
       <<Lit(<<"xyeol","gwa">>)>>,                                     \* 열과
       <<Lit(<<"bo","reu","do","xaeg">>)>>,                                 \* 보르도액
       <<Lit(<<"kal","syum">>), Opt("s"), Lit(<<"xyeob","myeon","si","bi">>)>>,         \* 칼슘\s?엽면시비
       <<Lit(<<"byeong","ban">>)>>,                                     \* 병반
       <<Lit(<<"bun","mu">>)>>,                                     \* 분무
       <<Lit(<<"hwan","pung","gi">>)>>,                                   \* 환풍기
       <<Lit(<<"song","xi">>), Opt("s"), Lit(<<"mo","xyang">>)>>,             \* 송이\s?모양
       <<Lit(<<"xwon","tong","hyeong">>)>>,                                   \* 원통형
       <<Lit(<<"geu","neul","jin">>), Opt("s"), Lit(<<"gwa","sil">>)>>,           \* 그늘진\s?과실
       <<Lit(<<"gwa","xwon">>)>>,                                     \* 과원
       <<Cls("A-Z_Hangul"), Lit(<<"beul","rog">>)>>,                  \* [A-Z가-힣]블록
       <<Lit(<<"ha","xu","seu">>), Opt("s"), Plus("d"), Lit(<<"dong">>)>>,  \* 하우스\s?\d+동
       <<Lit(<<"po","jang">>), Opt("dash_space"), Plus("d")>>,       \* 포장[- ]?\d+
       <<Lit(<<"jin","dis","mul">>), Opt("s"), Lit(<<"xye","bang">>)>>,           \* 진딧물\s?예방
       <<Lit(<<"tan","jeo","byeong">>), Opt("s"), Lit(<<"xye","bang">>)>>,           \* 탄저병\s?예방
       <<Lit(<<"xye","bang">>), Opt("s"), Lit(<<"bang","je">>)>> >>           \* 예방\s?방제

NON_FARMING_PATTERNS ==
    << \* (레시피|recipe)\b
       <<AnyOf(<<<<"re","si","pi">>, <<"r","e","c","i","p","e">>>>), B>>,
       \* \b재료\b
       <<B, Lit(<<"jae","ryo">>), B>>,
       \* (스푼|큰술|작은술|티스푼)\b
       <<AnyOf(<<<<"seu","pun">>, <<"keun","sul">>, <<"jag","xeun","sul">>, <<"ti","seu","pun">>>>), B>>,
       \* \b\d+(\.\d+)?\s?(g|kg|ml|l|리터|밀리리터|그램)\b
       <<B, Plus("d"), OptGrp(<<Lit(<<".">>), Plus("d")>>), Opt("s"),
         AnyOf(<<<<"g">>, <<"k","g">>, <<"m","l">>, <<"l">>, <<"ri","teo">>, <<"mil","ri","ri","teo">>, <<"geu","raem">>>>), B>>,
       \* (볶|끓이|졸이|굽|튀기|양념하|간\s?맞|간을\s?보|조리하|썰|다지|절이|데치|삶)\w*
       <<Alt(<< <<Lit(<<"bokk">>)>>, <<Lit(<<"kkeulh","xi">>)>>, <<Lit(<<"jol","xi">>)>>, <<Lit(<<"gub">>)>>,
                <<Lit(<<"twi","gi">>)>>, <<Lit(<<"xyang","nyeom","ha">>)>>,
                <<Lit(<<"gan">>), Opt("s"), Lit(<<"maj">>)>>,
                <<Lit(<<"gan","xeul">>), Opt("s"), Lit(<<"bo">>)>>,
                <<Lit(<<"jo","ri","ha">>)>>, <<Lit(<<"sseol">>)>>, <<Lit(<<"da","ji">>)>>, <<Lit(<<"jeol","xi">>)>>,
                <<Lit(<<"de","chi">>)>>, <<Lit(<<"salm">>)>> >>), Star("w")>>,
       \* (간장|설탕|소금|후추|다진마늘|대파|참기름|식용유|고춧가루|된장|고추장|김치|묵은지)
       <<AnyOf(<<<<"gan","jang">>, <<"seol","tang">>, <<"so","geum">>, <<"hu","chu">>, <<"da","jin","ma","neul">>, <<"dae","pa">>, <<"cham","gi","reum">>,
               <<"sig","xyong","xyu">>, <<"go","chus","ga","ru">>, <<"doen","jang">>, <<"go","chu","jang">>, <<"gim","chi">>, <<"mug","xeun","ji">>>>)>>,
       \* (시리야|유튜브\s?뮤직|플레이리스트|볼륨|마이크|녹음\s?종료|음악\s?틀어줘)
       <<Alt(<< <<Lit(<<"si","ri","xya">>)>>,
                <<Lit(<<"xyu","tyu","beu">>), Opt("s"), Lit(<<"myu","jig">>)>>,
                <<Lit(<<"peul","re","xi","ri","seu","teu">>)>>, <<Lit(<<"bol","ryum">>)>>, <<Lit(<<"ma","xi","keu">>)>>,
                <<Lit(<<"nog","xeum">>), Opt("s"), Lit(<<"jong","ryo">>)>>,
                <<Lit(<<"xeum","xag">>), Opt("s"), Lit(<<"teul","xeo","jwo">>)>> >>)>> >>

LOC_PATTERNS ==
    << <<Lit(<<"po","jang">>), Opt("dash_space"), Plus("d")>>,       \* (포장[- ]?\d+)
       <<Lit(<<"ha","xu","seu">>), Opt("dash_space"), Plus("d")>>,     \* (하우스[- ]?\d+)
       <<Cls("A-Z_Hangul"), Lit(<<"beul","rog">>)>>,                  \* ([A-Z가-힣]블록)
       <<Lit(<<"bat">>), Opt("s"), Plus("d")>> >>                \* (밭\s?\d+)

NONFARM_MEMO_HARD_RE ==
    << \* (레시피|recipe)\b, re.I
       [re |-> <<AnyOf(<<<<"re","si","pi">>, <<"r","e","c","i","p","e">>>>), B>>, ic |-> TRUE],
       \* \b재료\b
       [re |-> <<B, Lit(<<"jae","ryo">>), B>>, ic |-> FALSE],
       \* \b\d+(\.\d+)?\s?(g|kg|ml|l|리터|밀리리터|그램)\b
       [re |-> <<B, Plus("d"), OptGrp(<<Lit(<<".">>), Plus("d")>>), Opt("s"),
                 AnyOf(<<<<"g">>, <<"k","g">>, <<"m","l">>, <<"l">>, <<"ri","teo">>, <<"mil","ri","ri","teo">>, <<"geu","raem">>>>), B>>,
        ic |-> FALSE],
       \* (여행|항공권|비행기|렌터카|체크인|호텔|숙소|예약|제주), re.I
       [re |-> <<AnyOf(<<<<"xyeo","haeng">>, <<"hang","gong","gwon">>, <<"bi","haeng","gi">>, <<"ren","teo","ka">>, <<"che","keu","xin">>, <<"ho","tel">>,
                       <<"sug","so">>, <<"xye","xyag">>, <<"je","ju">>>>)>>, ic |-> TRUE],
       \* (영화|드라마|넷플릭스|콘서트|유튜브|플레이리스트|볼륨|음악\s?틀어줘)
       [re |-> <<Alt(<< <<Lit(<<"xyeong","hwa">>)>>, <<Lit(<<"deu","ra","ma">>)>>, <<Lit(<<"nes","peul","rig","seu">>)>>,
                        <<Lit(<<"kon","seo","teu">>)>>, <<Lit(<<"xyu","tyu","beu">>)>>, <<Lit(<<"peul","re","xi","ri","seu","teu">>)>>,
                        <<Lit(<<"bol","ryum">>)>>,
                        <<Lit(<<"xeum","xag">>), Opt("s"), Lit(<<"teul","xeo","jwo">>)>> >>)>>, ic |-> FALSE],
       \* (병원|약국|파스|어깨|허리|두통|감기|치과|건강검진)
       [re |-> <<AnyOf(<<<<"byeong","xwon">>, <<"xyag","gug">>, <<"pa","seu">>, <<"xeo","kkae">>, <<"heo","ri">>, <<"du","tong">>, <<"gam","gi">>,
                       <<"chi","gwa">>, <<"geon","gang","geom","jin">>>>)>>, ic |-> FALSE],
       \* (핸드폰|스마트폰|카톡|카카오톡|택배|영수증|세탁소|회의|출근|야근|카페|커피)
       [re |-> <<AnyOf(<<<<"haen","deu","pon">>, <<"seu","ma","teu","pon">>, <<"ka","tog">>, <<"ka","ka","xo","tog">>, <<"taeg","bae">>, <<"xyeong","su","jeung">>,
                       <<"se","tag","so">>, <<"hoe","xui">>, <<"chul","geun">>, <<"xya","geun">>, <<"ka","pe">>, <<"keo","pi">>>>)>>,
        ic |-> FALSE],
       \* (게임|스팀|롤|배그)
       [re |-> <<AnyOf(<<<<"ge","xim">>, <<"seu","tim">>, <<"rol">>, <<"bae","geu">>>>)>>, ic |-> FALSE] >>

NONFARM_MEMO_RE_LIST ==
    << \* (레시피|recipe)\b, re.I
       [re |-> <<AnyOf(<<<<"re","si","pi">>, <<"r","e","c","i","p","e">>>>), B>>, ic |-> TRUE],
       \* \b재료\b
       [re |-> <<B, Lit(<<"jae","ryo">>), B>>, ic |-> FALSE],
       \* \b\d+(\.\d+)?\s?(g|kg|ml|l|리터|밀리리터|그램)\b
       [re |-> <<B, Plus("d"), OptGrp(<<Lit(<<".">>), Plus("d")>>), Opt("s"),
                 AnyOf(<<<<"g">>, <<"k","g">>, <<"m","l">>, <<"l">>, <<"ri","teo">>, <<"mil","ri","ri","teo">>, <<"geu","raem">>>>), B>>,
        ic |-> FALSE],
       \* (여행|항공권|비행기|렌터카|체크인|호텔|숙소|예약|제주), re.I
       [re |-> <<AnyOf(<<<<"xyeo","haeng">>, <<"hang","gong","gwon">>, <<"bi","haeng","gi">>, <<"ren","teo","ka">>, <<"che","keu","xin">>, <<"ho","tel">>,
                       <<"sug","so">>, <<"xye","xyag">>, <<"je","ju">>>>)>>, ic |-> TRUE],
       \* (영화|드라마|넷플릭스|콘서트|유튜브|플레이리스트|볼륨|음악\s?틀어줘)
       [re |-> <<Alt(<< <<Lit(<<"xyeong","hwa">>)>>, <<Lit(<<"deu","ra","ma">>)>>, <<Lit(<<"nes","peul","rig","seu">>)>>,
                        <<Lit(<<"kon","seo","teu">>)>>, <<Lit(<<"xyu","tyu","beu">>)>>, <<Lit(<<"peul","re","xi","ri","seu","teu">>)>>,
                        <<Lit(<<"bol","ryum">>)>>,
                        <<Lit(<<"xeum","xag">>), Opt("s"), Lit(<<"teul","xeo","jwo">>)>> >>)>>, ic |-> FALSE],
       \* (병원|약국|파스|어깨|허리|두통|감기|치과|건강검진)
       [re |-> <<AnyOf(<<<<"byeong","xwon">>, <<"xyag","gug">>, <<"pa","seu">>, <<"xeo","kkae">>, <<"heo","ri">>, <<"du","tong">>, <<"gam","gi">>,
                       <<"chi","gwa">>, <<"geon","gang","geom","jin">>>>)>>, ic |-> FALSE],
       \* (핸드폰|스마트폰|카톡|카카오톡|택배|영수증|세탁소|회의|출근|야근|카페|커피)
       [re |-> <<AnyOf(<<<<"haen","deu","pon">>, <<"seu","ma","teu","pon">>, <<"ka","tog">>, <<"ka","ka","xo","tog">>, <<"taeg","bae">>, <<"xyeong","su","jeung">>,
                       <<"se","tag","so">>, <<"hoe","xui">>, <<"chul","geun">>, <<"xya","geun">>, <<"ka","pe">>, <<"keo","pi">>>>)>>,
        ic |-> FALSE],
       \* (게임|스팀|롤|배그)
       [re |-> <<AnyOf(<<<<"ge","xim">>, <<"seu","tim">>, <<"rol">>, <<"bae","geu">>>>)>>, ic |-> FALSE] >>

(***************************************************************************)
(* extract.py: analyse                                                     *)
(***************************************************************************)
KeywordHit(kw, text, low) ==
    /\ kw # <<>>
    /\ Contains(text, kw) \/ Contains(low, StrLower(kw))

RECURSIVE DomainLoop(_, _, _, _)
DomainLoop(todo, text, low, domain_hits) ==
    IF todo = {} THEN domain_hits
    ELSE LET kw == CHOOSE k \in todo : TRUE
         IN DomainLoop(todo \ {kw}, text, low,
                       IF KeywordHit(kw, text, low) THEN domain_hits + 1 ELSE domain_hits)

DomainHits_counts_both(text, domain_keywords) ==
    LET low == StrLower(text)
        n(kw) == (IF kw # <<>> /\ Contains(text, kw) THEN 1 ELSE 0)
                 + (IF kw # <<>> /\ Contains(low, StrLower(kw)) THEN 1 ELSE 0)
        sum[S \in SUBSET domain_keywords] ==
            IF S = {} THEN 0
            ELSE LET kw == CHOOSE k \in S : TRUE IN n(kw) + sum[S \ {kw}]
    IN sum[domain_keywords]

DomainHits(text, domain_keywords) == DomainLoop(domain_keywords, text, StrLower(text), 0)

OpHits(text) == Cardinality({op \in OPERATION_KEYWORDS : Contains(text, op)})

PatternHits_first_only(patterns, text) ==
    IF \E k \in DOMAIN patterns : Search(patterns[k], text, TRUE) THEN 1 ELSE 0

PatternHits(patterns, text) ==
    Cardinality({k \in DOMAIN patterns : Search(patterns[k], text, TRUE)})

CropHint_scan_first(text) ==
    IF \E k \in DOMAIN CROPS : Contains(text, CROPS[k])
    THEN CROPS[CHOOSE k \in DOMAIN CROPS :
                  /\ Contains(text, CROPS[k])
                  /\ \A j \in 1..(k - 1) : ~Contains(text, CROPS[j])]
    ELSE IF Contains(text, <<"sya","xin","meo","seu","kes">>) THEN <<"po","do">>
    ELSE None

\* 샤인머스켓 -> 포도
CropHint(text) ==
    IF Contains(text, <<"sya","xin","meo","seu","kes">>) THEN <<"po","do">>
    ELSE IF \E k \in DOMAIN CROPS : Contains(text, CROPS[k])
         THEN CROPS[CHOOSE k \in DOMAIN CROPS :
                       /\ Contains(text, CROPS[k])
                       /\ \A j \in 1..(k - 1) : ~Contains(text, CROPS[j])]
         ELSE None

LocationHint(text) ==
    IF \E k \in DOMAIN LOC_PATTERNS : Search(LOC_PATTERNS[k], text, FALSE)
    THEN LET k == CHOOSE p \in DOMAIN LOC_PATTERNS :
                     /\ Search(LOC_PATTERNS[p], text, FALSE)
                     /\ \A q \in 1..(p - 1) : ~Search(LOC_PATTERNS[q], text, FALSE)
         IN Strip(RemoveSpaces(FirstMatch(LOC_PATTERNS[k], text, FALSE)))
    ELSE None

(***************************************************************************)
(* extract.py: the date hint.  int(), the f-string formatting and          *)
(* strftime are modelled on digits; the clock is an input of the call.     *)
(***************************************************************************)
DigitSeq == <<"0","1","2","3","4","5","6","7","8","9">>

DigitVal(c) == (CHOOSE i \in DOMAIN DigitSeq : DigitSeq[i] = c) - 1

RECURSIVE ToInt(_)
ToInt(s) == IF s = <<>> THEN 0 ELSE 10 * ToInt(SubSeq(s, 1, Len(s) - 1)) + DigitVal(s[Len(s)])

RECURSIVE DecStr(_)
DecStr(n) == IF n < 10 THEN <<DigitSeq[n + 1]>> ELSE DecStr(n \div 10) \o <<DigitSeq[(n % 10) + 1]>>

RECURSIVE ZeroPad(_, _)
ZeroPad(s, width) == IF Len(s) >= width THEN s ELSE ZeroPad(<<"0">> \o s, width)

\* f"{y:04d}-{mo:02d}-{d:02d}"
FormatDate(y, mo, d) ==
    ZeroPad(DecStr(y), 4) \o <<"-">> \o ZeroPad(DecStr(mo), 2) \o <<"-">> \o ZeroPad(DecStr(d), 2)

\* the length, at most max, of the run of digits of text that starts at i
DigitRun(text, i, max) ==
    IF i <= Len(text) /\ text[i] \in Digits
    THEN IF max >= 2 /\ i + 1 <= Len(text) /\ text[i + 1] \in Digits THEN 2 ELSE 1
    ELSE 0

\* \s? : the position after an optional white space at i
SkipSpace(text, i) == IF i <= Len(text) /\ text[i] \in Spaces THEN i + 1 ELSE i

SepAt(text, i, seps) == i <= Len(text) /\ text[i] \in seps

NoMatch == [ok |-> FALSE, groups |-> <<>>]

\* (\d{1,2})[.\-/월]\s?(\d{1,2}) at i, the tail of both patterns; a day must be
\* followed by 일 when dayMark is set
MonthDayAt(text, i, dayMark) ==
    LET mlen == DigitRun(text, i, 2)
        dpos == SkipSpace(text, i + mlen + 1)
        dlen == DigitRun(text, dpos, 2)
    IN IF /\ mlen >= 1
          /\ SepAt(text, i + mlen, {".", "-", "/", "xwol"})
          /\ dlen >= 1
          /\ dayMark => SepAt(text, dpos + dlen, {"xil"})
       THEN [ok |-> TRUE,
             groups |-> <<SubSeq(text, i, i + mlen - 1), SubSeq(text, dpos, dpos + dlen - 1)>>]
       ELSE NoMatch

\* (\d{4})[.\-/년]\s?(\d{1,2})[.\-/월]\s?(\d{1,2})[일]? at i
FullDateAt(text, i) ==
    IF /\ i + 4 <= Len(text)
       /\ \A k \in i..(i + 3) : text[k] \in Digits
       /\ SepAt(text, i + 4, {".", "-", "/", "nyeon"})
       /\ MonthDayAt(text, SkipSpace(text, i + 5), FALSE).ok
    THEN [ok |-> TRUE,
          groups |-> <<SubSeq(text, i, i + 3)>> \o MonthDayAt(text, SkipSpace(text, i + 5), FALSE).groups]
    ELSE NoMatch

DATE_PATTERNS == <<"full", "month_day">>

DateMatchAt(pat, text, i) ==
    IF pat = "full" THEN FullDateAt(text, i) ELSE MonthDayAt(text, i, TRUE)

\* pat.search(text): the leftmost match
DateSearch(pat, text) ==
    LET at == {i \in 1..Len(text) : DateMatchAt(pat, text, i).ok}
    IN IF at = {} THEN NoMatch
       ELSE DateMatchAt(pat, text, CHOOSE i \in at : \A j \in at : i <= j)

\* datetime.now().strftime("%Y-%m-%d")
Today(now) == FormatDate(now.year, now.month, now.day)

\* dt = default_date, then the first pattern that matches: nothing in the try
\* block can raise on captured digits, so the numbers are formatted as captured
PatternDate(text, default_date, now) ==
    LET hit == {k \in DOMAIN DATE_PATTERNS : DateSearch(DATE_PATTERNS[k], text).ok}
        k == CHOOSE p \in hit : \A q \in hit : p <= q
        g == DateSearch(DATE_PATTERNS[k], text).groups
    IN IF hit = {} THEN default_date
       ELSE IF Len(g) = 3
            THEN FormatDate(ToInt(g[1]), ToInt(g[2]), ToInt(g[3]))
            ELSE FormatDate(now.year, ToInt(g[1]), ToInt(g[2]))

\* if not dt: 오늘 / 어제 both map to the current date
RelativeDate(text, dt, now) ==
    IF ~Truthy(dt) /\ (Contains(text, <<"xo","neul">>) \/ Contains(text, <<"xeo","je">>))
    THEN Today(now)
    ELSE dt

DateHint(text, default_date, now) ==
    RelativeDate(text, PatternDate(text, default_date, now), now)

analyse(stt_text, domain_keywords, default_date, now) ==
    LET text == Strip(stt_text)
        domain_hits == DomainHits(text, domain_keywords)
    IN [is_farming_related |-> domain_hits >= 1,
        date_hint |-> DateHint(text, default_date, now),
        crop_hint |-> CropHint(text),
        location_hint |-> LocationHint(text),
        domain_hits |-> domain_hits,
        op_hits |-> OpHits(text),
        non_farm_hits |-> PatternHits(NON_FARMING_PATTERNS, text),
        agri_hits |-> PatternHits(AGRI_WHITELIST_PATTERNS, text)]

(***************************************************************************)
(* intent_gate.py: semantic_gate.  The embedding service is outside the    *)
(* program: a call either fails or yields the two mean similarities, here  *)
(* in hundredths.                                                          *)
(***************************************************************************)
INTENT_POS_SIM == 30

INTENT_MARGIN == 8

EmbedOutcomes ==
    {[fails |-> TRUE, pos_sim |-> 0, neg_sim |-> 0],
     [fails |-> FALSE, pos_sim |-> 20, neg_sim |-> 20],
     [fails |-> FALSE, pos_sim |-> 35, neg_sim |-> 30],
     [fails |-> FALSE, pos_sim |-> 35, neg_sim |-> 20]}

semantic_gate(text, embed) ==
    IF Strip(text) = <<>>
    THEN [raised |-> FALSE, is_farm |-> FALSE, pos_sim |-> 0, neg_sim |-> 0]
    ELSE IF embed.fails
    THEN [raised |-> TRUE, is_farm |-> FALSE, pos_sim |-> 0, neg_sim |-> 0]
    ELSE [raised |-> FALSE,
          is_farm |-> /\ embed.pos_sim >= INTENT_POS_SIM
                      /\ embed.pos_sim - embed.neg_sim >= INTENT_MARGIN,
          pos_sim |-> embed.pos_sim,
          neg_sim |-> embed.neg_sim]

(***************************************************************************)
(* app_fastapi.py: the free-text gate of _run_with_analysis                *)
(***************************************************************************)
PyOr(a, b) == IF Truthy(a) THEN a ELSE b

TrySemanticGate_propagates(stt_text, embed) ==
    LET r == semantic_gate(stt_text, embed)
    IN [raised |-> r.raised, is_semantic_ok |-> r.is_farm,
        pos_sim |-> r.pos_sim, neg_sim |-> r.neg_sim]

TrySemanticGate(stt_text, embed) ==
    LET r == semantic_gate(stt_text, embed)
    IN IF r.raised
       THEN [raised |-> FALSE, is_semantic_ok |-> FALSE, pos_sim |-> 0, neg_sim |-> 0]
       ELSE [raised |-> FALSE, is_semantic_ok |-> r.is_farm,
             pos_sim |-> r.pos_sim, neg_sim |-> r.neg_sim]

is_related_final_semantic_first(res, is_semantic_ok, crop_hint, location_hint, env) ==
    LET crop_eff == PyOr(crop_hint, res.crop_hint)
        loc_eff == PyOr(location_hint, res.location_hint)
        rule_ok ==
            \/ res.agri_hits >= 1
            \/ res.domain_hits >= env.min_hits
            \/ /\ Truthy(PyOr(crop_eff, loc_eff))
               /\ res.op_hits >= env.min_op_hits \/ res.domain_hits >= 1
        blocked ==
            /\ env.block_nonfarm
            /\ res.non_farm_hits >= env.nonfarm_block_min
            /\ res.agri_hits = 0
    IN IF is_semantic_ok THEN TRUE
       ELSE IF blocked THEN FALSE
       ELSE rule_ok

is_related_final(res, is_semantic_ok, crop_hint, location_hint, env) ==
    LET crop_eff == PyOr(crop_hint, res.crop_hint)
        loc_eff == PyOr(location_hint, res.location_hint)
        rule_ok ==
            \/ res.agri_hits >= 1
            \/ res.domain_hits >= env.min_hits
            \/ /\ Truthy(PyOr(crop_eff, loc_eff))
               /\ res.op_hits >= env.min_op_hits \/ res.domain_hits >= 1
        blocked ==
            /\ env.block_nonfarm
            /\ res.non_farm_hits >= env.nonfarm_block_min
            /\ res.agri_hits = 0
    IN IF is_semantic_ok /\ ~blocked THEN TRUE
       ELSE IF blocked THEN FALSE
       ELSE rule_ok

(***************************************************************************)
(* gates.py: gate_csv_qa.  A field map is a Python dict: a sequence of     *)
(* <<key, value>> pairs in insertion order, with distinct keys.            *)
(***************************************************************************)
QaGet(qa, k) ==
    IF \E i \in DOMAIN qa : qa[i][1] = k
    THEN qa[CHOOSE i \in DOMAIN qa : qa[i][1] = k][2]
    ELSE None

label_map(k) ==
    CASE k = "site" -> <<"jae","bae","ji">>            \* 재배지
      [] k = "crop" -> <<"jag","mul">>              \* 작물
      [] k = "operation" -> <<"jag","xeob">>         \* 작업
      [] k = "pesticide" -> <<"nong","xyag">>         \* 농약
      [] k = "fertiliser" -> <<"bi","ryo">>        \* 비료
      [] k = "memo" -> <<"me","mo">>              \* 메모

RECURSIVE JoinWith(_, _)
JoinWith(parts, sep) ==
    IF parts = <<>> THEN <<>>
    ELSE IF Len(parts) = 1 THEN parts[1]
    ELSE parts[1] \o sep \o JoinWith(Tail(parts), sep)

_qa_to_text(qa) ==
    LET keep == SelectSeq(qa, LAMBDA kv : Truthy(kv[2]))
        pairs == [i \in DOMAIN keep |-> label_map(keep[i][1]) \o <<":", " ">> \o keep[i][2]]
    IN JoinWith(pairs, <<" ", "/", " ">>)

_is_nonfarm_memo_hard(memo) ==
    /\ Truthy(memo)
    /\ \E k \in DOMAIN NONFARM_MEMO_HARD_RE :
          Search(NONFARM_MEMO_HARD_RE[k].re, memo, NONFARM_MEMO_HARD_RE[k].ic)

is_nonfarm_memo(memo) ==
    /\ Truthy(memo)
    /\ \E k \in DOMAIN NONFARM_MEMO_RE_LIST :
          Search(NONFARM_MEMO_RE_LIST[k].re, Strip(memo), NONFARM_MEMO_RE_LIST[k].ic)

CsvTrySemanticGate(text, embed) ==
    LET r == semantic_gate(text, embed)
    IN IF r.raised
       THEN [raised |-> FALSE, is_semantic_ok |-> FALSE]
       ELSE [raised |-> FALSE, is_semantic_ok |-> r.is_farm]

CsvRules_no_whitelist(res, is_semantic_ok) ==
    IF is_semantic_ok THEN TRUE
    ELSE IF res.domain_hits >= 1 \/ res.op_hits >= 1 THEN TRUE
    ELSE FALSE

CsvRules(res, is_semantic_ok) ==
    IF is_semantic_ok \/ res.agri_hits >= 1 THEN TRUE
    ELSE IF res.domain_hits >= 1 \/ res.op_hits >= 1 THEN TRUE
    ELSE IF res.non_farm_hits >= 2 /\ res.agri_hits = 0 THEN FALSE
    ELSE FALSE

MemoOnlyNonfarm_memo_is_core(qa) ==
    LET has_core == \E k \in {"site", "crop", "operation", "pesticide", "fertiliser", "memo"} :
                        Truthy(QaGet(qa, k))
        memo == QaGet(qa, "memo")
    IN /\ Truthy(memo) /\ ~has_core
       /\ _is_nonfarm_memo_hard(memo) \/ is_nonfarm_memo(memo)

MemoOnlyNonfarm_ignores_core(qa) ==
    LET memo == QaGet(qa, "memo")
    IN /\ Truthy(memo)
       /\ _is_nonfarm_memo_hard(memo) \/ is_nonfarm_memo(memo)

MemoOnlyNonfarm(qa) ==
    LET has_core == \E k \in {"site", "crop", "operation", "pesticide", "fertiliser"} :
                        Truthy(QaGet(qa, k))
        memo == QaGet(qa, "memo")
    IN /\ Truthy(memo) /\ ~has_core
       /\ _is_nonfarm_memo_hard(memo) \/ is_nonfarm_memo(memo)

\* text and res are lines 63 and 70, text = _qa_to_text(qa) and
\* res = analyse(text, domain_kws): they depend on qa and domain_kws only and
\* the caller evaluates them once per field map.
gate_csv_qa(qa, text, res, embed, csv_gate_lenient) ==
    IF MemoOnlyNonfarm(qa)
    THEN [stage |-> "memo_only", accepted |-> FALSE, raised |-> FALSE,
          semantic_called |-> FALSE, is_semantic_ok |-> FALSE]
    ELSE IF csv_gate_lenient /\ (Truthy(QaGet(qa, "crop")) \/ Truthy(QaGet(qa, "operation")))
    THEN [stage |-> "lenient", accepted |-> TRUE, raised |-> FALSE,
          semantic_called |-> FALSE, is_semantic_ok |-> FALSE]
    ELSE LET sem == CsvTrySemanticGate(text, embed)
         IN [stage |-> "rules",
             accepted |-> CsvRules(res, sem.is_semantic_ok),
             raised |-> sem.raised,
             semantic_called |-> TRUE,
             is_semantic_ok |-> sem.is_semantic_ok]

(***************************************************************************)
(* app_fastapi.py: keyword loading.  A keyword file is missing, unreadable *)
(* (reading raises part-way), or a sequence of lines.                      *)
(***************************************************************************)
RECURSIVE SplitOn(_, _)
SplitOn(s, sep) ==
    IF \E i \in DOMAIN s : s[i] = sep
    THEN LET i == CHOOSE p \in DOMAIN s : s[p] = sep /\ \A q \in 1..(p - 1) : s[q] # sep
         IN <<SubSeq(s, 1, i - 1)>> \o SplitOn(SubSeq(s, i + 1, Len(s)), sep)
    ELSE <<s>>

RECURSIVE SplitWs(_)
SplitWs(s) ==
    LET t == LStrip(s)
    IN IF t = <<>> THEN <<>>
       ELSE IF \E i \in DOMAIN t : t[i] \in Spaces
       THEN LET i == CHOOSE p \in DOMAIN t :
                        t[p] \in Spaces /\ \A q \in 1..(p - 1) : t[q] \notin Spaces
            IN <<SubSeq(t, 1, i - 1)>> \o SplitWs(SubSeq(t, i + 1, Len(t)))
       ELSE <<t>>

RECURSIVE Flatten(_)
Flatten(ss) == IF ss = <<>> THEN <<>> ELSE Head(ss) \o Flatten(Tail(ss))

LineKeywords(raw) ==
    LET line == Strip(raw)
    IN IF line = <<>> \/ Head(line) = "#" THEN {}
       ELSE LET cut == IF Contains(line, <<"#">>) THEN Strip(SplitOn(line, "#")[1]) ELSE line
                cols == SplitOn(cut, ",")
                parts == IF Contains(cut, <<",">>)
                         THEN Flatten([i \in DOMAIN cols |-> SplitWs(Strip(cols[i]))])
                         ELSE SplitWs(cut)
            IN {Strip(parts[i]) : i \in DOMAIN parts} \ {<<>>}

\* except Exception: return kws
_load_farm_keywords_keeps_partial(file) ==
    IF ~file.exists THEN {}
    ELSE UNION {LineKeywords(file.lines[i]) : i \in DOMAIN file.lines}

_load_farm_keywords(file) ==
    IF ~file.exists THEN {}
    ELSE IF ~file.readable THEN {}
    ELSE UNION {LineKeywords(file.lines[i]) : i \in DOMAIN file.lines}

\* a missing file, an unreadable file, "# 영농" + blank, "# 영농" + "REI, 배추  # 작물"
KeywordFiles ==
    {[exists |-> FALSE, readable |-> FALSE, lines |-> <<>>],
     [exists |-> TRUE, readable |-> FALSE, lines |-> << <<"R","E","I">> >>],
     [exists |-> TRUE, readable |-> TRUE, lines |-> << <<"#"," ","xyeong","nong">>, <<>> >>],
     [exists |-> TRUE, readable |-> TRUE,
      lines |-> << <<"#"," ","xyeong","nong">>, <<"R","E","I",","," ","bae","chu"," "," ","#"," ","jag","mul">> >>]}

\* kws or set(_DEFAULT_FARM_KEYWORDS), without the substitution
KeywordsOrDefault_no_default(kws) == kws

\* kws or set(_DEFAULT_FARM_KEYWORDS)
KeywordsOrDefault(kws) == IF kws # {} THEN kws ELSE DEFAULT_FARM_KEYWORDS

LoadedOrDefault(file) == KeywordsOrDefault(_load_farm_keywords(file))

(***************************************************************************)
(* preprocess.py: the cleanup shared by the field normalizers.             *)
(***************************************************************************)
\* ^\s*(아니요|아뇨|아니|아냐|응|음|어|어후|예|네|노|NO|no|뇨)\s*[, ]*\s*   (IGNORECASE)
RE_INTERJECTION_FRONT ==
    <<Bol, Star("s"),
      AnyOf(<< <<"xa","ni","xyo">>, <<"xa","nyo">>, <<"xa","ni">>, <<"xa","nya">>, <<"xeung">>,
               <<"xeum">>, <<"xeo">>, <<"xeo","hu">>, <<"xye">>, <<"ne">>, <<"no">>, <<"N","O">>,
               <<"n","o">>, <<"nyo">> >>),
      Star("s"), Star("comma_space"), Star("s")>>

\* ^\s*(없(음|어요|다)?|미사용|사용\s*안(함|했|합니다)?|
\*      안\s*(쳤|치|줬|주|했|함|씀|썼(어|다|어요)?)|no|무)\s*[,\.]*\s*$   (IGNORECASE)
NONEISH_RE ==
    <<Bol, Star("s"),
      Alt(<< <<Lit(<<"xeobs">>), OptGrp(<<AnyOf(<< <<"xeum">>, <<"xeo","xyo">>, <<"da">> >>)>>)>>,
             <<Lit(<<"mi","sa","xyong">>)>>,
             <<Lit(<<"sa","xyong">>), Star("s"), Lit(<<"xan">>), OptGrp(<<AnyOf(<< <<"ham">>, <<"haess">>, <<"hab","ni","da">> >>)>>)>>,
             <<Lit(<<"xan">>), Star("s"),
               Alt(<< <<Lit(<<"chyeoss">>)>>, <<Lit(<<"chi">>)>>, <<Lit(<<"jwoss">>)>>, <<Lit(<<"ju">>)>>,
                      <<Lit(<<"haess">>)>>, <<Lit(<<"ham">>)>>, <<Lit(<<"sseum">>)>>,
                      <<Lit(<<"sseoss">>), OptGrp(<<AnyOf(<< <<"xeo">>, <<"da">>, <<"xeo","xyo">> >>)>>)>> >>)>>,
             <<Lit(<<"n","o">>)>>,
             <<Lit(<<"mu">>)>> >>),
      Star("s"), Star("comma_dot"), Star("s"), Eol>>

\* re.sub(r"\s*,\s*", " ", s); re.sub(r"\s{2,}", " ", s); strip
collapse_commas_spaces(s) ==
    LET s1 == ReSub(<<Star("s"), Lit(<<",">>), Star("s")>>, <<" ">>, s, FALSE)
        s2 == ReSub(<<Rep("s", 2, -1)>>, <<" ">>, s1, FALSE)
    IN Strip(s2)

drop_front_interjection(s) == ReSub(RE_INTERJECTION_FRONT, <<>>, s, TRUE)

\* (했어|했어요|했습니다|하였음|하였어요|하였고|야|이야|에요|예요|입니다|이요|요)$
TAIL_SPEECH_RE ==
    <<AnyOf(<< <<"haess","xeo">>, <<"haess","xeo","xyo">>, <<"haess","seub","ni","da">>,
               <<"ha","xyeoss","xeum">>, <<"ha","xyeoss","xeo","xyo">>, <<"ha","xyeoss","go">>,
               <<"xya">>, <<"xi","xya">>, <<"xe","xyo">>, <<"xye","xyo">>, <<"xib","ni","da">>,
               <<"xi","xyo">>, <<"xyo">> >>),
      Eol>>

strip_tail_speech(s) ==
    IF s = <<>> THEN s
    ELSE LET s1 == RStripChars(Strip(s), {",", ".", " "})
         IN Strip(ReSub(TAIL_SPEECH_RE, <<>>, s1, FALSE))

\* collapse_commas_spaces(drop_front_interjection(s)), then strip_tail_speech
Cleanup(s) == strip_tail_speech(collapse_commas_spaces(drop_front_interjection(s)))

(***************************************************************************)
(* preprocess.py: the lexicon of the normalizers.                          *)
(***************************************************************************)
\* 파종·정식, 재배관리, 병해충관리, 수확, 출하·유통 with their trigger words,
\* in the order of the dictionary
OP_CANON ==
    << [key |-> <<"pa","jong","middot","jeong","sig">>, kws |-> {<<"pa","jong">>, <<"jeong","sig">>, <<"xi","sig">>}],
       [key |-> <<"jae","bae","gwan","ri">>,
        kws |-> {<<"jae","bae","gwan","ri">>, <<"saeng","xyug","gwan","ri">>,
                 <<"ha","xu","seu","gwan","ri">>, <<"gwan","su">>, <<"hanja_gwan","hanja_su">>,
                 <<"jeom","jeog">>, <<"xyang","xaeg">>, <<"si","bi">>, <<"chu","bi">>, <<"hwan","gi">>,
                 <<"cha","gwang">>, <<"bong","ji">>, <<"xal","sokk","gi">>, <<"chag","saeg">>,
                 <<"jeon","jeong">>, <<"ga","ji","chi","gi">>, <<"je","cho">>, <<"xye","cho">>,
                 <<"jab","cho">>, <<"pul">>, <<"je","cho","je">>}],
       [key |-> <<"byeong","hae","chung","gwan","ri">>, kws |-> {<<"byeong","hae">>, <<"hae","chung">>, <<"bang","je">>, <<"xyag","je">>, <<"sal","po">>,
                                   <<"jin","dis","mul">>, <<"tan","jeo">>, <<"xyeog","byeong">>, <<"bo","reu","do">>}],
       [key |-> <<"su","hwag">>, kws |-> {<<"su","hwag">>, <<"xye","chwi">>, <<"tta","gi">>, <<"geo","dwo">>, <<"geo","dum">>}],
       [key |-> <<"chul","ha","middot","xyu","tong">>, kws |-> {<<"chul","ha">>, <<"xyu","tong">>, <<"seon","byeol">>, <<"po","jang">>, <<"sang","cha">>}] >>

\* 배추 고추 사과 토마토 감자 상추 딸기 파프리카 오이 참외 포도 복숭아
\* 샤인머스켓 사과나무 포도나무 감귤 귤
KNOWN_CROPS ==
    << <<"bae","chu">>, <<"go","chu">>, <<"sa","gwa">>, <<"to","ma","to">>, <<"gam","ja">>,
       <<"sang","chu">>, <<"ttal","gi">>, <<"pa","peu","ri","ka">>, <<"xo","xi">>,
       <<"cham","xoe">>, <<"po","do">>, <<"bog","sung","xa">>,
       <<"sya","xin","meo","seu","kes">>, <<"sa","gwa","na","mu">>, <<"po","do","na","mu">>,
       <<"gam","gyul">>, <<"gyul">> >>

\* (서울|부산|...|경상북도|경북)\s*[가-힣A-Za-z0-9]*
KOR_LOC_RE ==
    <<AnyOf(<< <<"seo","xul">>, <<"bu","san">>, <<"dae","gu">>, <<"xin","cheon">>, <<"gwang","ju">>,
               <<"dae","jeon">>, <<"xul","san">>, <<"se","jong">>, <<"je","ju">>, <<"je","ju","do">>,
               <<"gang","xwon","do">>, <<"gang","xwon">>, <<"gyeong","gi">>, <<"gyeong","gi","do">>,
               <<"chung","cheong","nam","do">>, <<"chung","nam">>, <<"chung","cheong","bug","do">>,
               <<"chung","bug">>, <<"jeon","ra","nam","do">>, <<"jeon","nam">>,
               <<"jeon","ra","bug","do">>, <<"jeon","bug">>, <<"gyeong","sang","nam","do">>,
               <<"gyeong","nam">>, <<"gyeong","sang","bug","do">>, <<"gyeong","bug">> >>),
      Star("s"), Star("Hangul_alnum")>>

\* (포장[- ]?\d+|하우스[- ]?\d+|[A-Z가-힣]블록|밭\s?\d+|과원)
SITE_RE ==
    <<Alt(<< <<Lit(<<"po","jang">>), Opt("dash_space"), Plus("d")>>,
             <<Lit(<<"ha","xu","seu">>), Opt("dash_space"), Plus("d")>>,
             <<Cls("A-Z_Hangul"), Lit(<<"beul","rog">>)>>,
             <<Lit(<<"bat">>), Opt("s"), Plus("d")>>,
             <<Lit(<<"gwa","xwon">>)>> >>)>>

(***************************************************************************)
(* preprocess.py: the field normalizers.                                   *)
(***************************************************************************)
normalize_site(s) ==
    IF ~Truthy(s) THEN None
    ELSE LET c == Cleanup(s)
         IN IF SearchStart(SITE_RE, c, FALSE) # 0
            THEN Replace(Group0(SITE_RE, c, FALSE), <<" ">>, <<>>)
            ELSE IF SearchStart(KOR_LOC_RE, c, FALSE) # 0
            THEN Strip(Replace(Group0(KOR_LOC_RE, c, FALSE), <<" ", " ">>, <<" ">>))
            ELSE IF c = <<>> THEN None ELSE c

\* (나무)(야|지|인데|에요|예요)?$
TREE_SUFFIX_RE == <<Lit(<<"na","mu">>), OptGrp(<<AnyOf(<< <<"xya">>, <<"ji">>, <<"xin","de">>, <<"xe","xyo">>, <<"xye","xyo">> >>)>>), Eol>>

\* 샤인머스켓 -> 포도, 사과나무 -> 사과, 포도나무 -> 포도
CropAlias(c) ==
    IF c = <<"sya","xin","meo","seu","kes">> THEN <<"po","do">>
    ELSE IF c = <<"sa","gwa","na","mu">> THEN <<"sa","gwa">>
    ELSE IF c = <<"po","do","na","mu">> THEN <<"po","do">>
    ELSE c

normalize_crop(s) ==
    IF ~Truthy(s) THEN None
    ELSE LET c == Strip(ReSub(TREE_SUFFIX_RE, <<>>, Cleanup(s), FALSE))
             known == {k \in DOMAIN KNOWN_CROPS : Contains(c, KNOWN_CROPS[k])}
             toks == SplitWs(c)
         IN IF Contains(c, <<"sya","xin","meo","seu","kes">>) THEN <<"po","do">>
            ELSE IF Contains(c, <<"sa","gwa","na","mu">>) THEN <<"sa","gwa">>
            ELSE IF Contains(c, <<"po","do","na","mu">>) THEN <<"po","do">>
            ELSE IF Contains(c, <<"gyul">>) /\ ~Contains(c, <<"gam","gyul">>) THEN <<"gam","gyul">>
            ELSE IF known # {}
            THEN CropAlias(KNOWN_CROPS[CHOOSE k \in known : \A j \in known : k <= j])
            ELSE IF toks # <<>> THEN toks[1] ELSE c

_canon_op_free(answer) ==
    LET a == Replace(answer, <<" ">>, <<>>)
        same == {k \in DOMAIN OP_CANON : Replace(OP_CANON[k].key, <<" ">>, <<>>) = a}
        hit == {k \in DOMAIN OP_CANON : \E w \in OP_CANON[k].kws : Contains(answer, w)}
    IN IF same # {} THEN OP_CANON[CHOOSE k \in same : \A j \in same : k <= j].key
       ELSE IF hit # {} THEN OP_CANON[CHOOSE k \in hit : \A j \in hit : k <= j].key
       ELSE IF Strip(answer) = <<>> THEN None ELSE Strip(answer)

AnyIn(s, words) == \E w \in words : Contains(s, w)

\* the pest-control check moved in front of the harvest check
normalize_operation_pest_first(s) ==
    IF ~Truthy(s) THEN None
    ELSE LET c == Strip(Replace(Cleanup(s), <<"jag","xeob">>, <<>>))
         IN IF AnyIn(c, {<<"bang","je">>, <<"xyag","je">>, <<"sal","po">>, <<"jin","dis","mul">>, <<"tan","jeo">>, <<"xyeog","byeong">>, <<"bo","reu","do">>})
            THEN <<"byeong","hae","chung","gwan","ri">>
            ELSE IF AnyIn(c, {<<"su","hwag">>, <<"tta","gi">>, <<"geo","dwo">>, <<"geo","dum">>}) THEN <<"su","hwag">>
            ELSE IF AnyIn(c, {<<"ga","ji","chi","gi">>, <<"jeon","jeong">>, <<"jab","cho">>, <<"je","cho">>, <<"xye","cho">>, <<"pul"," ","ppob">>, <<"pul","ppob">>})
            THEN <<"jae","bae","gwan","ri">>
            ELSE IF AnyIn(c, {<<"pa","jong">>, <<"jeong","sig">>, <<"xi","sig">>}) THEN <<"pa","jong","middot","jeong","sig">>
            ELSE IF AnyIn(c, {<<"bong","ji">>, <<"xal","sokk","gi">>, <<"chag","saeg">>, <<"gwan","su">>, <<"hanja_gwan","hanja_su">>,
                              <<"jeom","jeog">>, <<"xyang","xaeg">>, <<"si","bi">>, <<"chu","bi">>, <<"hwan","gi">>, <<"cha","gwang">>})
            THEN <<"jae","bae","gwan","ri">>
            ELSE _canon_op_free(c)

normalize_operation(s) ==
    IF ~Truthy(s) THEN None
    ELSE LET c == Strip(Replace(Cleanup(s), <<"jag","xeob">>, <<>>))
         IN IF AnyIn(c, {<<"su","hwag">>, <<"tta","gi">>, <<"geo","dwo">>, <<"geo","dum">>, <<"su","hwag","ham">>,
                         <<"su","hwag","haess">>}) THEN <<"su","hwag">>
            ELSE IF AnyIn(c, {<<"ga","ji","chi","gi">>, <<"jeon","jeong">>}) THEN <<"jae","bae","gwan","ri">>
            ELSE IF AnyIn(c, {<<"jab","cho">>, <<"je","cho">>, <<"xye","cho">>, <<"pul"," ","ppob">>, <<"pul","ppob">>}) THEN <<"jae","bae","gwan","ri">>
            ELSE IF AnyIn(c, {<<"bang","je">>, <<"xyag","je">>, <<"sal","po">>, <<"jin","dis","mul">>, <<"tan","jeo">>,
                              <<"xyeog","byeong">>, <<"bo","reu","do">>}) THEN <<"byeong","hae","chung","gwan","ri">>
            ELSE IF AnyIn(c, {<<"pa","jong">>, <<"jeong","sig">>, <<"xi","sig">>}) THEN <<"pa","jong","middot","jeong","sig">>
            ELSE IF AnyIn(c, {<<"bong","ji">>, <<"xal","sokk","gi">>, <<"chag","saeg">>, <<"gwan","su">>,
                              <<"hanja_gwan","hanja_su">>, <<"jeom","jeog">>, <<"xyang","xaeg">>, <<"si","bi">>,
                              <<"chu","bi">>, <<"hwan","gi">>, <<"cha","gwang">>})
            THEN <<"jae","bae","gwan","ri">>
            ELSE _canon_op_free(c)

\* \b(이번엔|이번에는|오늘은|지금은|금번엔|이번|금번)\b
CONTEXT_WORD_RE == <<B, AnyOf(<< <<"xi","beon","xen">>, <<"xi","beon","xe","neun">>, <<"xo","neul","xeun">>,
                                 <<"ji","geum","xeun">>, <<"geum","beon","xen">>, <<"xi","beon">>, <<"geum","beon">> >>), B>>

\* 안\s*(줬|주|쳤|치|했|함|씀|썼)(었|었어|었어요|네|다|요)?
NEGATION_RE ==
    <<Lit(<<"xan">>), Star("s"), AnyOf(<< <<"jwoss">>, <<"ju">>, <<"chyeoss">>, <<"chi">>, <<"haess">>, <<"ham">>, <<"sseum">>,
                                     <<"sseoss">> >>),
      OptGrp(<<AnyOf(<< <<"xeoss">>, <<"xeoss","xeo">>, <<"xeoss","xeo","xyo">>, <<"ne">>, <<"da">>, <<"xyo">> >>)>>)>>

\* (전\s*(에|엔)\s*(줬|주었|쳤|치었)|지난번(에)?\s*(줬|쳤)|예전에\s*(줬|쳤))
STALE_RE ==
    <<Alt(<< <<Lit(<<"jeon">>), Star("s"), AnyOf(<< <<"xe">>, <<"xen">> >>), Star("s"), AnyOf(<< <<"jwoss">>, <<"ju","xeoss">>, <<"chyeoss">>, <<"chi","xeoss">> >>)>>,
             <<Lit(<<"ji","nan","beon">>), OptGrp(<<Lit(<<"xe">>)>>), Star("s"), AnyOf(<< <<"jwoss">>, <<"chyeoss">> >>)>>,
             <<Lit(<<"xye","jeon","xe">>), Star("s"), AnyOf(<< <<"jwoss">>, <<"chyeoss">> >>)>> >>)>>

\* the cleaned string of normalize_agri_input, context words removed
AgriCleaned(s) == Strip(ReSub(CONTEXT_WORD_RE, <<>>, Cleanup(s), FALSE))

normalize_agri_input_keeps_stale(s) ==
    IF ~Truthy(s) THEN None
    ELSE LET c == AgriCleaned(s)
         IN IF SearchStart(NONEISH_RE, c, TRUE) # 0 THEN None
            ELSE IF SearchStart(NEGATION_RE, c, FALSE) # 0 THEN None
            ELSE IF c = <<>> THEN None ELSE c

normalize_agri_input_no_negation(s) ==
    IF ~Truthy(s) THEN None
    ELSE LET c == AgriCleaned(s)
         IN IF SearchStart(NONEISH_RE, c, TRUE) # 0 THEN None
            ELSE IF SearchStart(STALE_RE, c, FALSE) # 0 THEN None
            ELSE IF c = <<>> THEN None ELSE c

normalize_agri_input(s) ==
    IF ~Truthy(s) THEN None
    ELSE LET c == AgriCleaned(s)
         IN IF SearchStart(NONEISH_RE, c, TRUE) # 0 THEN None
            ELSE IF SearchStart(NEGATION_RE, c, FALSE) # 0 THEN None
            ELSE IF SearchStart(STALE_RE, c, FALSE) # 0 THEN None
            ELSE IF c = <<>> THEN None ELSE c

(***************************************************************************)
(* preprocess.py: summarize_memo.                                          *)
(***************************************************************************)
\* (\d+(\.\d+)?)
NUMBER_RE == <<Plus("d"), OptGrp(<<Lit(<<".">>), Plus("d")>>)>>

\* (\d+(\.\d+)?)\s*(brix|브릭스|bx)   (IGNORECASE)
BRIX_RE == NUMBER_RE \o <<Star("s"), AnyOf(<< <<"b","r","i","x">>, <<"beu","rig","seu">>, <<"b","x">> >>)>>

\* (맑|비\s?옴|비\s?와|더움|추움|바람|날씨)
WEATHER_RE ==
    <<Alt(<< <<Lit(<<"malg">>)>>, <<Lit(<<"bi">>), Opt("s"), Lit(<<"xom">>)>>,
             <<Lit(<<"bi">>), Opt("s"), Lit(<<"xwa">>)>>, <<Lit(<<"deo","xum">>)>>, <<Lit(<<"chu","xum">>)>>,
             <<Lit(<<"ba","ram">>)>>, <<Lit(<<"nal","ssi">>)>> >>)>>

\* re.split(r"[\.!?]\s*", t)
SENTENCE_END_RE == <<Cls("sentence_end"), Star("s")>>

RECURSIVE SplitRe(_, _)
SplitRe(re, text) ==
    LET i == SearchStart(re, text, FALSE)
    IN IF i = 0 \/ i > Len(text) THEN <<text>>
       ELSE <<SubSeq(text, 1, i - 1)>>
               \o SplitRe(re, SubSeq(text, MatchEnd(re, text, i, FALSE), Len(text)))

Append1(tokens, cond, tok) == IF cond THEN Append(tokens, tok) ELSE tokens

InSeq(x, s) == \E i \in DOMAIN s : s[i] = x

MemoTokens_operation_first(t, crop, op) ==
    LET brix == SearchStart(BRIX_RE, t, TRUE)
        t0 == Append1(Append1(<<>>, Truthy(op), op), Truthy(crop), crop)
        t1 == Append1(t0, Contains(t, <<"su","hwag">>), <<"su","hwag">>)
        t2 == Append1(t1, /\ AnyIn(t, {<<"jab","cho">>, <<"je","cho">>, <<"xye","cho">>, <<"pul">>})
                          /\ ~InSeq(<<"jae","bae","gwan","ri">>, t1)
                          /\ op # <<"jae","bae","gwan","ri">>,
                      <<"jae","bae","gwan","ri">>)
        t3 == Append1(t2, AnyIn(t, {<<"bang","je">>, <<"xyag","je">>, <<"sal","po">>, <<"jin","dis","mul">>, <<"tan","jeo">>,
                                    <<"xyeog","byeong">>, <<"bo","reu","do">>}), <<"byeong","hae","chung">>)
        t4 == IF brix # 0
              THEN Append(t3, <<"dang","do"," ">> \o SubSeq(t, brix, MatchEnd(NUMBER_RE, t, brix, TRUE) - 1)
                                \o <<" ","B","r","i","x">>)
              ELSE Append1(t3, Contains(t, <<"dang","do">>), <<"dang","do"," ","nop","xeum">>)
        t5 == Append1(t4, SearchStart(WEATHER_RE, t, FALSE) # 0,
                      IF Contains(t, <<"malg">>) THEN <<"nal","ssi"," ","joh","xeum">> ELSE <<"nal","ssi">>)
    IN Append1(t5, Truthy(op) /\ ~InSeq(op, t5), op)

\* the tokens of summarize_memo for the cleaned memo t, in the order the
\* code appends them
MemoTokens(t, crop, op) ==
    LET brix == SearchStart(BRIX_RE, t, TRUE)
        t0 == Append1(<<>>, Truthy(crop), crop)
        t1 == Append1(t0, Contains(t, <<"su","hwag">>), <<"su","hwag">>)
        t2 == Append1(t1, /\ AnyIn(t, {<<"jab","cho">>, <<"je","cho">>, <<"xye","cho">>, <<"pul">>})
                          /\ ~InSeq(<<"jae","bae","gwan","ri">>, t1)
                          /\ op # <<"jae","bae","gwan","ri">>,
                      <<"jae","bae","gwan","ri">>)
        t3 == Append1(t2, AnyIn(t, {<<"bang","je">>, <<"xyag","je">>, <<"sal","po">>, <<"jin","dis","mul">>, <<"tan","jeo">>,
                                    <<"xyeog","byeong">>, <<"bo","reu","do">>}), <<"byeong","hae","chung">>)
        t4 == IF brix # 0
              THEN Append(t3, <<"dang","do"," ">> \o SubSeq(t, brix, MatchEnd(NUMBER_RE, t, brix, TRUE) - 1)
                                \o <<" ","B","r","i","x">>)
              ELSE Append1(t3, Contains(t, <<"dang","do">>), <<"dang","do"," ","nop","xeum">>)
        t5 == Append1(t4, SearchStart(WEATHER_RE, t, FALSE) # 0,
                      IF Contains(t, <<"malg">>) THEN <<"nal","ssi"," ","joh","xeum">> ELSE <<"nal","ssi">>)
    IN Append1(t5, Truthy(op) /\ ~InSeq(op, t5), op)

summarize_memo_skips_veto(memo, crop, op) ==
    IF ~Truthy(memo) THEN None
    ELSE LET t == Cleanup(memo)
             tokens == MemoTokens(t, crop, op)
         IN IF tokens = <<>>
            THEN LET sent == SplitRe(SENTENCE_END_RE, t)
                 IN Strip(JoinWith(SubSeq(sent, 1, IF Len(sent) < 2 THEN Len(sent) ELSE 2),
                                   <<" ">>))
            ELSE JoinWith(tokens, <<" ","middot"," ">>)

summarize_memo(memo, crop, op) ==
    IF ~Truthy(memo) THEN None
    ELSE IF is_nonfarm_memo(memo) THEN None
    ELSE LET t == Cleanup(memo)
             tokens == MemoTokens(t, crop, op)
         IN IF tokens = <<>>
            THEN LET sent == SplitRe(SENTENCE_END_RE, t)
                 IN Strip(JoinWith(SubSeq(sent, 1, IF Len(sent) < 2 THEN Len(sent) ELSE 2),
                                   <<" ">>))
            ELSE JoinWith(tokens, <<" ","middot"," ">>)

(***************************************************************************)
(* csv_io.py: the CSV record parser.  A file is the sequence of its lines; *)
(* the returned dictionary is the sequence of its <<key, value>> entries   *)
(* in insertion order.                                                     *)
(***************************************************************************)
\* site: 재배지 포장 위치 장소; crop: 작물 품목 품종; operation: 작업 카테고리 작업구분;
\* pesticide: 농약 약제; fertiliser: 비료 시비 자재; memo: 메모 비고 기타
FIELD_ALIASES ==
    << [field |-> "site", aliases |-> {<<"jae","bae","ji">>, <<"po","jang">>, <<"xwi","chi">>, <<"jang","so">>}],
       [field |-> "crop", aliases |-> {<<"jag","mul">>, <<"pum","mog">>, <<"pum","jong">>}],
       [field |-> "operation", aliases |-> {<<"jag","xeob">>, <<"ka","te","go","ri">>, <<"jag","xeob","gu","bun">>}],
       [field |-> "pesticide", aliases |-> {<<"nong","xyag">>, <<"xyag","je">>}],
       [field |-> "fertiliser", aliases |-> {<<"bi","ryo">>, <<"si","bi">>, <<"ja","jae">>}],
       [field |-> "memo", aliases |-> {<<"me","mo">>, <<"bi","go">>, <<"gi","ta">>}] >>

ENGLISH_LABELS ==
    << [field |-> "site", aliases |-> {<<"s","i","t","e">>, <<"l","o","c","a","t","i","o","n">>, <<"f","i","e","l","d">>,
                                       <<"p","l","o","t">>}],
       [field |-> "crop", aliases |-> {<<"c","r","o","p">>, <<"i","t","e","m">>, <<"v","a","r","i","e","t","y">>}],
       [field |-> "operation", aliases |-> {<<"o","p","e","r","a","t","i","o","n">>, <<"c","a","t","e","g","o","r","y">>,
                                            <<"w","o","r","k">>}],
       [field |-> "pesticide", aliases |-> {<<"p","e","s","t","i","c","i","d","e">>,
                                            <<"a","g","r","o","c","h","e","m","i","c","a","l">>, <<"c","h","e","m">>}],
       [field |-> "fertiliser", aliases |-> {<<"f","e","r","t","i","l","i","s","e","r">>, <<"f","e","r","t","i","l","i","z","e","r">>,
                                             <<"n","u","t","r","i","e","n","t">>}],
       [field |-> "memo", aliases |-> {<<"m","e","m","o">>, <<"n","o","t","e">>, <<"r","e","m","a","r","k","s">>}] >>

\* the first entry of the table whose aliases hold lab, or "None"
LookUp(table, lab) ==
    LET hit == {k \in DOMAIN table : lab \in table[k].aliases}
    IN IF hit = {} THEN "None" ELSE table[CHOOSE k \in hit : \A j \in hit : k <= j].field

_canon_field(label) ==
    LET lab == Strip(label)
    IN IF LookUp(FIELD_ALIASES, lab) # "None" THEN LookUp(FIELD_ALIASES, lab)
       ELSE LookUp(ENGLISH_LABELS, StrLower(lab))

\* value or None
OrNone(v) == IF v = <<>> THEN None ELSE v

\* out[k] = v
DictSet(out, k, v) ==
    IF \E i \in DOMAIN out : out[i][1] = k
    THEN [i \in DOMAIN out |-> IF out[i][1] = k THEN <<k, v>> ELSE out[i]]
    ELSE Append(out, <<k, v>>)

\* [c.strip() for c in ln.split(",")]
Cells(ln) == LET cols == SplitOn(ln, ",") IN [i \in DOMAIN cols |-> Strip(cols[i])]

RECURSIVE _parse_rows_qna(_, _)
_parse_rows_qna(out, rows) ==
    IF rows = <<>> THEN out
    ELSE LET cols == Cells(Head(rows))
             value == IF Len(cols) > 1 THEN Strip(JoinWith(Tail(cols), <<",">>)) ELSE <<>>
             fld == _canon_field(cols[1])
         IN _parse_rows_qna(IF fld # "None" THEN DictSet(out, fld, OrNone(value)) ELSE out,
                            Tail(rows))

\* label, value = ln.split(",", 1) for every line that has a comma
RECURSIVE ParseLabelValueRows(_, _)
ParseLabelValueRows(out, rows) ==
    IF rows = <<>> THEN out
    ELSE LET ln == Head(rows)
             i == CHOOSE p \in DOMAIN ln : ln[p] = "," /\ \A q \in 1..(p - 1) : ln[q] # ","
             fld == _canon_field(SubSeq(ln, 1, i - 1))
             value == Strip(SubSeq(ln, i + 1, Len(ln)))
         IN IF ~Contains(ln, <<",">>) THEN ParseLabelValueRows(out, Tail(rows))
            ELSE ParseLabelValueRows(IF fld # "None" THEN DictSet(out, fld, OrNone(value))
                                     ELSE out,
                                     Tail(rows))

\* lab2idx = {h: i for i, h in enumerate(header)}: the last column of a label
LabIdx(header, al) == CHOOSE i \in DOMAIN header : header[i] = al /\ \A j \in DOMAIN header : header[j] = al => j <= i

\* the values the header-row shape can store for field k: one per alias of
\* the field that heads a column of the data row; the alias set is iterated
\* in hash order and the last assignment stays
HeaderRowValues(header, vals, k) ==
    {OrNone(vals[LabIdx(header, al)]) :
        al \in {a \in FIELD_ALIASES[k].aliases :
                   (\E i \in DOMAIN header : header[i] = a) /\ LabIdx(header, a) <= Len(vals)}}

RECURSIVE ParseHeaderRow(_, _, _)
ParseHeaderRow(header, vals, k) ==
    IF k > Len(FIELD_ALIASES) THEN {<<>>}
    ELSE LET rest == ParseHeaderRow(header, vals, k + 1)
             here == HeaderRowValues(header, vals, k)
         IN IF here = {} THEN rest
            ELSE {<< <<FIELD_ALIASES[k].field, v>> >> \o r : v \in here, r \in rest}

AllAliases == UNION {FIELD_ALIASES[k].aliases : k \in DOMAIN FIELD_ALIASES}

\* [ln for ln in f if ln.strip() != ""]
NonBlank(file) == SelectSeq(file, LAMBDA ln : Strip(ln) # <<>>)

\* the shape of the input, from the header row
Shape_alias_first(lines) ==
    LET header == Cells(lines[1])
        header_l == {StrLower(header[i]) : i \in DOMAIN header}
    IN IF \E i \in DOMAIN header : header[i] \in AllAliases THEN "header_row"
       ELSE IF \/ {<<"q","u","e","s","t","i","o","n">>, <<"a","n","s","w","e","r">>} \subseteq header_l
               \/ {<<"f","i","e","l","d">>, <<"v","a","l","u","e">>} \subseteq header_l
       THEN "qna"
       ELSE "label_value"

Shape(lines) ==
    LET header == Cells(lines[1])
        header_l == {StrLower(header[i]) : i \in DOMAIN header}
    IN IF \/ {<<"q","u","e","s","t","i","o","n">>, <<"a","n","s","w","e","r">>} \subseteq header_l
          \/ {<<"f","i","e","l","d">>, <<"v","a","l","u","e">>} \subseteq header_l
       THEN "qna"
       ELSE IF \E i \in DOMAIN header : header[i] \in AllAliases THEN "header_row"
       ELSE "label_value"

\* for k, v in out.items(): a blank string becomes None
BlankToNone(out) ==
    [i \in DOMAIN out |->
        IF out[i][2] # None /\ Strip(out[i][2]) = <<>> THEN <<out[i][1], None>> ELSE out[i]]

\* the dictionaries read_qa_csv can return for an existing file under the
\* base directory
read_qa_csv(file) ==
    LET lines == NonBlank(file)
    IN IF lines = <<>> THEN {<<>>}
       ELSE IF Shape(lines) = "qna" THEN {BlankToNone(_parse_rows_qna(<<>>, Tail(lines)))}
       ELSE IF Shape(lines) = "header_row"
       THEN {BlankToNone(out) :
                out \in ParseHeaderRow(Cells(lines[1]),
                                       IF Len(lines) >= 2 THEN Cells(lines[2]) ELSE <<>>, 1)}
       ELSE {BlankToNone(ParseLabelValueRows(<<>>, lines))}

(***************************************************************************)
(* Inputs of the model.                                                    *)
(***************************************************************************)
RECURSIVE Texts(_, _)
Texts(phrases, n) ==
    IF n = 0 THEN {<<>>}
    ELSE LET shorter == Texts(phrases, n - 1)
         IN shorter \cup {(IF t = <<>> THEN <<>> ELSE t \o <<" ">>) \o p :
                             t \in shorter, p \in phrases}

\* 김치찌개 레시피: 재료 준비, 양념 넣고 끓이기
KimchiStewText ==
    <<"gim","chi","jji","gae"," ","re","si","pi",":"," ","jae","ryo"," ","jun","bi",","," ">>
    \o <<"xyang","nyeom"," ","neoh","go"," ","kkeulh","xi","gi">>

\* the kimchi-stew text, 배추, 점적, 포장-2, 500g
GatePhrases == {KimchiStewText, <<"bae","chu">>, <<"jeom","jeog">>, <<"po","jang","-","2">>, <<"5","0","0","g">>}

\* 배추, 사과, 포도, 샤인머스켓, REI, rei
AnalysePhrases ==
    {<<"bae","chu">>, <<"sa","gwa">>, <<"po","do">>, <<"sya","xin","meo","seu","kes">>, <<"R","E","I">>, <<"r","e","i">>}

\* "", 배추, REI, rei
KeywordPool == {<<>>, <<"bae","chu">>, <<"R","E","I">>, <<"r","e","i">>}

Thresholds == 1..MaxThreshold

Envs ==
    [min_hits : Thresholds, min_op_hits : Thresholds,
     block_nonfarm : BOOLEAN, nonfarm_block_min : Thresholds]

DefaultEnv ==
    [min_hits |-> 1, min_op_hits |-> 1, block_nonfarm |-> TRUE, nonfarm_block_min |-> 2]

\* 사과
CropHintInputs == {None, <<"sa","gwa">>}

\* A블록
LocationHintInputs == {None, <<"A","beul","rog">>}

Absent == <<"Absent">>

\* the clock at the time of the call
FixedNow == [year |-> 2025, month |-> 9, day |-> 1]

Nows == {FixedNow, [year |-> 2026, month |-> 1, day |-> 2]}

\* 2024-12-31
DateHintInputs == {None, <<"2","0","2","4","-","1","2","-","3","1">>}

Entry(k, v) == IF v = Absent THEN <<>> ELSE << <<k, v>> >>

\* 김치 레시피: 재료
KimchiMemo == <<"gim","chi"," ","re","si","pi",":"," ","jae","ryo">>

\* 과원 김치 레시피
OrchardRecipeMemo == <<"gwa","xwon"," ","gim","chi"," ","re","si","pi">>

\* 500G, 안녕
MemoInputs == {Absent, KimchiMemo, OrchardRecipeMemo, <<"5","0","0","G">>, <<"xan","nyeong">>}

\* site 밭, crop 배추, operation 정식, pesticide 없음, fertiliser None
QAs ==
    {Entry("site", s) \o Entry("crop", c) \o Entry("operation", o)
        \o Entry("pesticide", p) \o Entry("fertiliser", f) \o Entry("memo", m) :
        s \in {Absent, <<"bat">>}, c \in {Absent, <<"bae","chu">>}, o \in {Absent, <<"jeong","sig">>},
        p \in {Absent, <<"xeobs","xeum">>}, f \in {Absent, None}, m \in MemoInputs}

(***************************************************************************)
(* The service: process-wide state and one action per endpoint.            *)
(***************************************************************************)
VARIABLES farm_keywords, pipeline, pc, call, args, result, heap, vector_store, ingested

vars == <<farm_keywords, pipeline, pc, call, args, result, heap, vector_store, ingested>>

\* what only the threaded model of the service uses: the set objects by
\* identity, the version of the persisted vector store, and the last /ingest
\* that returned
threaded == <<heap, vector_store, ingested>>

NoIngest == [kws |-> 0, vector_store |-> 0]

NoCall == [endpoint |-> "none"]

NoArgs == [fn |-> "none"]

NoResult == [fn |-> "none"]

REJECT_MSG == "REJECT_MSG"

Startup ==
    /\ \E file \in KeywordFiles : farm_keywords = LoadedOrDefault(file)
    /\ pipeline = "None"
    /\ pc = "idle"
    /\ call = NoCall
    /\ heap = <<>>
    /\ vector_store = 0
    /\ ingested = NoIngest

Init ==
    /\ Startup
    /\ args = NoArgs
    /\ result = NoResult

_run_with_analysis ==
    /\ pc = "idle"
    /\ \E stt_text \in Texts(GatePhrases, MaxPhrases) :
          \E domain_kws \in {KeywordsOrDefault(farm_keywords)} :
          \E date_hint \in DateHintInputs, now \in Nows :
          \E res \in {analyse(stt_text, domain_kws, date_hint, now)} :
          \E embed \in EmbedOutcomes :
          \E sem \in {TrySemanticGate(stt_text, embed)} :
          \E crop_hint \in CropHintInputs, location_hint \in LocationHintInputs,
                env \in Envs :
          \E ok \in {is_related_final(res, sem.is_semantic_ok,
                                      crop_hint, location_hint, env)} :
             /\ farm_keywords' = domain_kws
             /\ pipeline' = IF ok /\ ~sem.raised /\ pipeline = "None"
                            THEN "FarmLogPipeline" ELSE pipeline
             /\ call' = [endpoint |-> "summarise",
                         domain_kws |-> domain_kws,
                         stt_text |-> stt_text,
                         crop_hint |-> crop_hint,
                         location_hint |-> location_hint,
                         env |-> env,
                         embed |-> embed,
                         sem |-> sem,
                         res |-> res,
                         accepted |-> ok /\ ~sem.raised,
                         response |-> IF sem.raised THEN "HTTP 500"
                                      ELSE IF ok THEN "FarmLog"
                                      ELSE REJECT_MSG]
    /\ pc' = "responded"
    /\ UNCHANGED <<args, result, threaded>>

summarise_csv ==
    /\ pc = "idle"
    /\ \E qa \in QAs :
          \E domain_kws \in {KeywordsOrDefault(farm_keywords)} :
          \E text \in {_qa_to_text(qa)} :
          \E now \in Nows :
          \E res \in {analyse(text, domain_kws, None, now)} :
          \E embed \in EmbedOutcomes, csv_gate_lenient \in BOOLEAN :
          \E gate \in {gate_csv_qa(qa, text, res, embed, csv_gate_lenient)} :
             call' = [endpoint |-> "summarise_csv",
                      domain_kws |-> domain_kws,
                      qa |-> qa,
                      csv_gate_lenient |-> csv_gate_lenient,
                      embed |-> embed,
                      res |-> res,
                      gate |-> gate,
                      accepted |-> gate.accepted /\ ~gate.raised,
                      response |-> IF gate.raised THEN "HTTP 500"
                                   ELSE IF gate.accepted THEN "CsvSummary"
                                   ELSE REJECT_MSG]
    /\ pc' = "responded"
    /\ UNCHANGED <<farm_keywords, pipeline, args, result, threaded>>

ingest ==
    /\ pc = "idle"
    /\ \E built \in BOOLEAN, file \in KeywordFiles :
          IF built
          THEN /\ pipeline' = "None"
               /\ farm_keywords' = LoadedOrDefault(file)
               /\ call' = [endpoint |-> "ingest", response |-> "ok"]
          ELSE /\ UNCHANGED <<farm_keywords, pipeline>>
               /\ call' = [endpoint |-> "ingest", response |-> "HTTP 500"]
    /\ pc' = "responded"
    /\ UNCHANGED <<args, result, threaded>>

Respond ==
    /\ pc = "responded"
    /\ pc' = "idle"
    /\ call' = NoCall
    /\ UNCHANGED <<farm_keywords, pipeline, args, result, threaded>>

Next == _run_with_analysis \/ summarise_csv \/ ingest \/ Respond

Spec == Init /\ [][Next]_vars

(***************************************************************************)
(* analyse as a pure function: the inputs are drawn at the start and the   *)
(* only step applies the function.                                         *)
(***************************************************************************)
InitAnalyse ==
    /\ Startup
    /\ args \in [fn : {"analyse"},
                 stt_text : Texts(AnalysePhrases, MaxPhrases),
                 domain_keywords : SUBSET KeywordPool,
                 default_date : {None},
                 now : {FixedNow}]
    /\ result = NoResult

AnalyseCall ==
    /\ args.fn = "analyse"
    /\ result.fn = "none"
    /\ result' = [fn |-> "analyse", res |-> analyse(args.stt_text, args.domain_keywords, args.default_date, args.now)]
    /\ UNCHANGED <<farm_keywords, pipeline, pc, call, args, threaded>>

NextAnalyse == AnalyseCall

SpecAnalyse == InitAnalyse /\ [][NextAnalyse]_vars

(***************************************************************************)
(* analyse on texts that carry dates and relative-day words, with and      *)
(* without a default date and under two clocks.                            *)
(***************************************************************************)
\* 2025-13-45, 2025.3.5, 2025년 3월 5일, 3월 5일, 13월 45일, 3/5, 오늘, 어제, 배추
DatePhrases ==
    {<<"2","0","2","5","-","1","3","-","4","5">>,
     <<"2","0","2","5",".","3",".","5">>,
     <<"2","0","2","5","nyeon"," ","3","xwol"," ","5","xil">>,
     <<"3","xwol"," ","5","xil">>,
     <<"1","3","xwol"," ","4","5","xil">>,
     <<"3","/","5">>,
     <<"xo","neul">>,
     <<"xeo","je">>,
     <<"bae","chu">>}

InitAnalyseDate ==
    /\ Startup
    /\ args \in [fn : {"analyse"},
                 stt_text : Texts(DatePhrases, MaxPhrases),
                 domain_keywords : {{}, {<<"bae","chu">>}},
                 default_date : DateHintInputs,
                 now : Nows]
    /\ result = NoResult

SpecAnalyseDate == InitAnalyseDate /\ [][NextAnalyse]_vars

(***************************************************************************)
(* The field normalizers as pure functions: the input is drawn at the      *)
(* start and one step applies the normalizer; normalize_crop can then be   *)
(* applied once more to its own output.                                    *)
(***************************************************************************)
\* 포장 3, 하우스-2, A블록, 과원, 제주도, 집, 응, 요
SitePhrases ==
    {<<"po","jang"," ","3">>, <<"ha","xu","seu","-","2">>, <<"A","beul","rog">>,
     <<"gwa","xwon">>, <<"je","ju","do">>, <<"jib">>, <<"xeung">>, <<"xyo">>}

\* 샤인머스켓, 사과나무, 귤, 감귤, 감나무, 나무, 나무야, 배요요, 아니, 응, 블루베리요
CropPhrases ==
    {<<"sya","xin","meo","seu","kes">>, <<"sa","gwa","na","mu">>, <<"gyul">>,
     <<"gam","gyul">>, <<"gam","na","mu">>, <<"na","mu">>, <<"na","mu","xya">>,
     <<"bae","xyo","xyo">>, <<"xa","ni">>, <<"xeung">>, <<"beul","ru","be","ri","xyo">>}

\* 수확, 가지치기 작업, 풀, 방제, 정식, 선별, 청소, 작업, 예초, 관수
OperationPhrases ==
    {<<"su","hwag">>, <<"ga","ji","chi","gi"," ","jag","xeob">>, <<"pul">>, <<"bang","je">>, <<"jeong","sig">>, <<"seon","byeol">>, <<"cheong","so">>, <<"jag","xeob">>,
     <<"xye","cho">>, <<"gwan","su">>}

\* 전에 줬, 전엔 쳤고, 지난번에 줬, 지난번 쳤, 예전에 줬
StalePrefixes ==
    {<<"jeon","xe"," ","jwoss">>, <<"jeon","xen"," ","chyeoss","go">>,
     <<"ji","nan","beon","xe"," ","jwoss">>, <<"ji","nan","beon"," ","chyeoss">>,
     <<"xye","jeon","xe"," ","jwoss">>}

\* 요소, 보르도액, 요소 2kg 줬어요
AgriProducts ==
    {<<"xyo","so">>, <<"bo","reu","do","xaeg">>,
     <<"xyo","so"," ","2","k","g"," ","jwoss","xeo","xyo">>}

\* the stale prefixes, the products, 이번엔, 오늘은, 안 쳤어요, 없음, 응, 무
AgriPhrases ==
    StalePrefixes \cup AgriProducts \cup
    {<<"xi","beon","xen">>, <<"xo","neul","xeun">>, <<"xan"," ","chyeoss","xeo","xyo">>,
     <<"xeobs","xeum">>, <<"xeung">>, <<"mu">>}

\* 수확, 잡초, 방제, 당도, 18 Brix, 12.5bx, 맑음, 바람, 500g, 레시피, 응, 특이사항 없음.
MemoPhrases ==
    {<<"su","hwag">>, <<"jab","cho">>, <<"bang","je">>, <<"dang","do">>,
     <<"1","8"," ","B","r","i","x">>, <<"1","2",".","5","b","x">>, <<"malg","xeum">>,
     <<"ba","ram">>, <<"5","0","0","g">>, <<"re","si","pi">>, <<"xeung">>,
     <<"teug","xi","sa","hang"," ","xeobs","xeum",".">>}

\* no crop, 포도, 재배관리
MemoCrops == {None, <<"po","do">>, <<"jae","bae","gwan","ri">>}

\* no operation, 수확, 재배관리, 병해충관리
MemoOps == {None, <<"su","hwag">>, <<"jae","bae","gwan","ri">>, <<"byeong","hae","chung","gwan","ri">>}

NormalizerArgs(fn, inputs) == [fn : {fn}, s : inputs \cup {None}, crop : {None}, op : {None}]

InitNormalize ==
    /\ Startup
    /\ args \in NormalizerArgs("normalize_site", Texts(SitePhrases, MaxPhrases))
          \cup NormalizerArgs("normalize_crop", Texts(CropPhrases, MaxPhrases))
          \cup NormalizerArgs("normalize_operation", Texts(OperationPhrases, MaxPhrases))
          \cup NormalizerArgs("normalize_agri_input",
                              Texts(AgriPhrases, MaxPhrases)
                                 \cup {s \o p : s \in StalePrefixes, p \in AgriProducts})
          \cup [fn : {"summarize_memo"},
                s : Texts(MemoPhrases, MaxPhrases) \cup {None},
                crop : MemoCrops, op : MemoOps]
    /\ result = NoResult

Return(fn, out) ==
    /\ args.fn = fn
    /\ result.fn = "none"
    /\ result' = [fn |-> fn, out |-> out]
    /\ UNCHANGED <<farm_keywords, pipeline, pc, call, args, threaded>>

NormalizeSiteCall == Return("normalize_site", normalize_site(args.s))

NormalizeCropCall == Return("normalize_crop", normalize_crop(args.s))

NormalizeOperationCall == Return("normalize_operation", normalize_operation(args.s))

NormalizeAgriInputCall == Return("normalize_agri_input", normalize_agri_input(args.s))

SummarizeMemoCall == Return("summarize_memo", summarize_memo(args.s, args.crop, args.op))

\* normalize_crop applied to the crop it returned
NormalizeCropAgain ==
    /\ result.fn = "normalize_crop"
    /\ result' = [fn |-> "normalize_crop_again",
                  first |-> result.out,
                  out |-> normalize_crop(result.out)]
    /\ UNCHANGED <<farm_keywords, pipeline, pc, call, args, threaded>>

NextNormalize ==
    \/ NormalizeSiteCall
    \/ NormalizeCropCall
    \/ NormalizeCropAgain
    \/ NormalizeOperationCall
    \/ NormalizeAgriInputCall
    \/ SummarizeMemoCall

SpecNormalize == InitNormalize /\ [][NextNormalize]_vars

(***************************************************************************)
(* The CSV record parser on files of at most MaxRows lines.                *)
(***************************************************************************)
\* question,answer / Field , Value,비고 / 작물,작업,품종 / 작물, 포도 /
\* 작업,관수 , 점적 / 날씨,맑음 / crop , 사과,배 / 포도,관수,샤인 / 비고 /
\* a blank line / 농약, / work,수확
CsvRows ==
    {<<"q","u","e","s","t","i","o","n",",","a","n","s","w","e","r">>,
     <<"F","i","e","l","d"," ",","," ","V","a","l","u","e",",","bi","go">>,
     <<"jag","mul",",","jag","xeob",",","pum","jong">>, <<"jag","mul",","," ","po","do">>,
     <<"jag","xeob",",","gwan","su"," ",","," ","jeom","jeog">>,
     <<"nal","ssi",",","malg","xeum">>, <<"c","r","o","p"," ",","," ","sa","gwa",",","bae">>,
     <<"po","do",",","gwan","su",",","sya","xin">>, <<"bi","go">>, <<" "," ">>,
     <<"nong","xyag",",">>, <<"w","o","r","k",",","su","hwag">>}

RECURSIVE CsvFiles(_)
CsvFiles(n) ==
    IF n = 0 THEN {<<>>}
    ELSE LET shorter == CsvFiles(n - 1)
         IN shorter \cup {Append(f, row) : f \in shorter, row \in CsvRows}

InitCsv ==
    /\ Startup
    /\ args \in [fn : {"read_qa_csv"}, path : {"ok"}, file : CsvFiles(MaxRows)]
          \cup [fn : {"read_qa_csv"}, path : {"outside", "missing"}, file : {<<>>}]
    /\ result = NoResult

\* a path outside STT_CSV_DIR is HTTP 400, a missing file HTTP 404
ReadQaCsvRaises ==
    /\ args.fn = "read_qa_csv"
    /\ args.path # "ok"
    /\ result.fn = "none"
    /\ result' = [fn |-> "read_qa_csv_raised",
                  status |-> IF args.path = "outside" THEN 400 ELSE 404]
    /\ UNCHANGED <<farm_keywords, pipeline, pc, call, args, threaded>>

ReadQaCsv ==
    /\ args.fn = "read_qa_csv"
    /\ args.path = "ok"
    /\ result.fn = "none"
    /\ \E out \in read_qa_csv(args.file) : result' = [fn |-> "read_qa_csv", out |-> out]
    /\ UNCHANGED <<farm_keywords, pipeline, pc, call, args, threaded>>

NextCsv == ReadQaCsv \/ ReadQaCsvRaises

SpecCsv == InitCsv /\ [][NextCsv]_vars

(***************************************************************************)
(* The canonical rendering of a field map (gates.py, _qa_to_text) handed   *)
(* to the CSV record parser as the content of a file.                      *)
(***************************************************************************)
\* site 밭, crop 배추, operation 정식 or blank, pesticide 없음,
\* fertiliser None, memo 맑음 or 수확,선별
RoundTripQAs ==
    {Entry("site", s) \o Entry("crop", c) \o Entry("operation", o)
        \o Entry("pesticide", p) \o Entry("fertiliser", f) \o Entry("memo", m) :
        s \in {Absent, None, <<"bat">>}, c \in {Absent, <<"bae","chu">>},
        o \in {Absent, <<>>, <<"jeong","sig">>}, p \in {Absent, <<"xeobs","xeum">>}, f \in {Absent, None},
        m \in {Absent, <<"malg","xeum">>, <<"su","hwag",",","seon","byeol">>}}

\* the lines of a file that holds the text
FileOf(text) == IF text = <<>> THEN <<>> ELSE <<text>>

InitRoundTrip ==
    /\ Startup
    /\ args \in [fn : {"round_trip"}, qa : RoundTripQAs]
    /\ result = NoResult

RenderAndParse ==
    /\ args.fn = "round_trip"
    /\ result.fn = "none"
    /\ \E text \in {_qa_to_text(args.qa)} :
          \E out \in read_qa_csv(FileOf(text)) :
             result' = [fn |-> "round_trip", text |-> text, out |-> out]
    /\ UNCHANGED <<farm_keywords, pipeline, pc, call, args, threaded>>

NextRoundTrip == RenderAndParse

SpecRoundTrip == InitRoundTrip /\ [][NextRoundTrip]_vars

(***************************************************************************)
(* _load_farm_keywords as a pure function of the keyword file: a file is   *)
(* missing, or holds at most MaxRows lines; for an unreadable file the     *)
(* lines are those read before reading raised.                             *)
(***************************************************************************)
\* # 영농 / a blank line / REI, 배추  # 작물 /   #주석 / 관수 시비 /
\* 사과,,포도 배 / a comma between blanks
KeywordLines ==
    {<<"#"," ","xyeong","nong">>, <<>>, <<"R","E","I",","," ","bae","chu"," "," ","#"," ","jag","mul">>, <<" "," ","#","ju","seog">>, <<"gwan","su"," ","si","bi">>,
     <<"sa","gwa",",",",","po","do"," ","bae">>, <<" ",","," ">>}

RECURSIVE KeywordLineSeqs(_)
KeywordLineSeqs(n) ==
    IF n = 0 THEN {<<>>}
    ELSE LET shorter == KeywordLineSeqs(n - 1)
         IN shorter \cup {Append(f, ln) : f \in shorter, ln \in KeywordLines}

InitKeywords ==
    /\ Startup
    /\ args \in [fn : {"_load_farm_keywords"}, exists : {TRUE}, readable : BOOLEAN,
                 lines : KeywordLineSeqs(MaxRows)]
          \cup [fn : {"_load_farm_keywords"}, exists : {FALSE}, readable : {FALSE},
                lines : {<<>>}]
    /\ result = NoResult

LoadFarmKeywords ==
    /\ args.fn = "_load_farm_keywords"
    /\ result.fn = "none"
    /\ result' = [fn |-> "_load_farm_keywords", raised |-> FALSE,
                  out |-> _load_farm_keywords(args)]
    /\ UNCHANGED <<farm_keywords, pipeline, pc, call, args, threaded>>

NextKeywords == LoadFarmKeywords

SpecKeywords == InitKeywords /\ [][NextKeywords]_vars

(***************************************************************************)
(* The service under threads.  The endpoints are plain def functions, run  *)
(* by the worker threads of the server with no lock: two summarise         *)
(* requests and one /ingest interleave at every access to the process-wide *)
(* state.  app.state.farm_keywords is a reference to a set object of the   *)
(* heap, _pipeline a reference to a pipeline that holds the vector store   *)
(* it loaded when it was constructed.  At most MaxIngests reloads rebuild  *)
(* the store.                                                              *)
(***************************************************************************)
RequestThreads == {"r1", "r2"}

IngestThread == "ingest"

Threads == RequestThreads \cup {IngestThread}

\* 포도: a crop named by the built-in keywords and not by the keyword file
ThreadTexts == {<<"po","do">>}

\* the keyword sets a startup or a reload can publish
ThreadKeywordSets == {LoadedOrDefault(file) : file \in KeywordFiles}

\* analyse(stt_text, domain_kws, default_date=None) for the texts and the
\* keyword sets of this model, evaluated once
AnalyseTable ==
    [stt_text \in ThreadTexts, domain_kws \in ThreadKeywordSets \cup {{}} |->
        analyse(stt_text, domain_kws, None, FixedNow)]

\* the embedding call fails: the rules decide
ThreadEmbeds == {[fails |-> TRUE, pos_sim |-> 0, neg_sim |-> 0]}

\* _pipeline is None
NonePipeline == [constructed |-> FALSE, vs |-> 0]

NoRequest ==
    [stt_text |-> <<>>, is_semantic_ok |-> FALSE, started_after |-> NoIngest,
     domain_kws |-> 0, domain_hits |-> 0, accepted |-> FALSE,
     p |-> NonePipeline, ran_on |-> NonePipeline, response |-> "none"]

NoIngestCall == [kws |-> 0, response |-> "none"]

InitThreaded ==
    /\ \E file \in KeywordFiles : heap = <<LoadedOrDefault(file)>>
    /\ farm_keywords = 1
    /\ pipeline = NonePipeline
    /\ vector_store = 0
    /\ ingested = NoIngest
    /\ pc = [t \in Threads |-> "idle"]
    /\ call = [t \in Threads |-> IF t = IngestThread THEN NoIngestCall ELSE NoRequest]
    /\ args = NoArgs
    /\ result = NoResult

Goto(t, label) == pc' = [pc EXCEPT ![t] = label]

\* a summarise request arrives: the semantic gate runs first
RequestStart(t) ==
    /\ pc[t] = "idle"
    /\ \E stt_text \in ThreadTexts, embed \in ThreadEmbeds :
          call' = [call EXCEPT ![t] =
                      [NoRequest EXCEPT !.stt_text = stt_text,
                                        !.is_semantic_ok = TrySemanticGate(stt_text, embed).is_semantic_ok,
                                        !.started_after = ingested]]
    /\ Goto(t, "read_keywords")
    /\ UNCHANGED <<farm_keywords, pipeline, args, result, threaded>>

\* domain_kws = getattr(app.state, "farm_keywords", set()) or set(_DEFAULT_FARM_KEYWORDS)
ReadKeywords(t) ==
    /\ pc[t] = "read_keywords"
    /\ \E kws \in {KeywordsOrDefault(heap[farm_keywords])} :
          IF kws = heap[farm_keywords]
          THEN /\ call' = [call EXCEPT ![t].domain_kws = farm_keywords]
               /\ heap' = heap
          ELSE /\ call' = [call EXCEPT ![t].domain_kws = Len(heap) + 1]
               /\ heap' = Append(heap, kws)
    /\ Goto(t, "write_keywords")
    /\ UNCHANGED <<farm_keywords, pipeline, args, result, vector_store, ingested>>

\* app.state.farm_keywords = domain_kws, and then
\* res = analyse(stt_text, domain_kws, default_date=date_hint) starts to walk
\* the set it was handed
WriteKeywords(t) ==
    /\ pc[t] = "write_keywords"
    /\ farm_keywords' = call[t].domain_kws
    /\ Goto(t, "in_analyse")
    /\ UNCHANGED <<pipeline, call, args, result, threaded>>

\* analyse returns and the request goes on to the pipeline without the early
\* return of the rejection message
Gate_always_generates(t) ==
    /\ pc[t] = "in_analyse"
    /\ \E res \in {AnalyseTable[call[t].stt_text, heap[call[t].domain_kws]]} :
       \E ok \in {is_related_final(res, call[t].is_semantic_ok, None, None, DefaultEnv)} :
          /\ call' = [call EXCEPT ![t].domain_kws = 0, ![t].domain_hits = res.domain_hits, ![t].accepted = ok]
          /\ Goto(t, "check_pipeline")
    /\ UNCHANGED <<farm_keywords, pipeline, args, result, threaded>>

\* analyse returns and the gate decides: a rejected request answers here.
\* The local domain_kws is not read again and is dropped.
Gate(t) ==
    /\ pc[t] = "in_analyse"
    /\ \E res \in {AnalyseTable[call[t].stt_text, heap[call[t].domain_kws]]} :
       \E ok \in {is_related_final(res, call[t].is_semantic_ok, None, None, DefaultEnv)} :
          /\ call' = [call EXCEPT ![t].domain_kws = 0,
                                  ![t].domain_hits = res.domain_hits,
                                  ![t].accepted = ok,
                                  ![t].response = IF ok THEN "none" ELSE REJECT_MSG]
          /\ Goto(t, IF ok THEN "check_pipeline" ELSE "done")
    /\ UNCHANGED <<farm_keywords, pipeline, args, result, threaded>>

\* if _pipeline is None
CheckPipeline(t) ==
    /\ pc[t] = "check_pipeline"
    /\ Goto(t, IF pipeline = NonePipeline THEN "construct" ELSE "run")
    /\ UNCHANGED <<farm_keywords, pipeline, call, args, result, threaded>>

\* FarmLogPipeline(): the constructor loads the vector store as it is now
ConstructPipeline(t) ==
    /\ pc[t] = "construct"
    /\ call' = [call EXCEPT ![t].p = [constructed |-> TRUE, vs |-> vector_store]]
    /\ Goto(t, "install")
    /\ UNCHANGED <<farm_keywords, pipeline, args, result, threaded>>

\* _pipeline = <the constructed pipeline>: the request keeps no reference
\* of its own
InstallPipeline(t) ==
    /\ pc[t] = "install"
    /\ pipeline' = call[t].p
    /\ call' = [call EXCEPT ![t].p = NonePipeline]
    /\ Goto(t, "run")
    /\ UNCHANGED <<farm_keywords, args, result, threaded>>

\* return _pipeline.run(...): the global is read again, and None has no run
RunPipeline(t) ==
    /\ pc[t] = "run"
    /\ call' = [call EXCEPT ![t].ran_on = pipeline,
                            ![t].response = IF pipeline = NonePipeline THEN "HTTP 500" ELSE "FarmLog"]
    /\ Goto(t, "done")
    /\ UNCHANGED <<farm_keywords, pipeline, args, result, threaded>>

RequestReturn(t) ==
    /\ pc[t] = "done"
    /\ call' = [call EXCEPT ![t] = NoRequest]
    /\ Goto(t, "idle")
    /\ UNCHANGED <<farm_keywords, pipeline, args, result, threaded>>

\* /ingest: build_or_load_vectorstore rebuilds the store, or raises
IngestBuild ==
    /\ pc[IngestThread] = "idle"
    /\ vector_store < MaxIngests
    /\ \E built \in BOOLEAN :
          IF built
          THEN /\ vector_store' = vector_store + 1
               /\ Goto(IngestThread, "reset")
               /\ call' = call
          ELSE /\ vector_store' = vector_store
               /\ Goto(IngestThread, "done")
               /\ call' = [call EXCEPT ![IngestThread].response = "HTTP 500"]
    /\ UNCHANGED <<farm_keywords, pipeline, args, result, heap, ingested>>

\* _pipeline = None
IngestReset ==
    /\ pc[IngestThread] = "reset"
    /\ pipeline' = NonePipeline
    /\ Goto(IngestThread, "load")
    /\ UNCHANGED <<farm_keywords, call, args, result, threaded>>

\* the keyword file is loaded into a set of its own, but the set app.state
\* holds is emptied and refilled instead of being replaced
IngestLoad_in_place ==
    /\ pc[IngestThread] = "load"
    /\ \E file \in KeywordFiles :
          heap' = [heap EXCEPT ![farm_keywords] = LoadedOrDefault(file)]
    /\ call' = [call EXCEPT ![IngestThread].kws = farm_keywords]
    /\ Goto(IngestThread, "publish")
    /\ UNCHANGED <<farm_keywords, pipeline, args, result, vector_store, ingested>>

\* kws = _load_farm_keywords(KEYWORDS_PATH) or set(_DEFAULT_FARM_KEYWORDS):
\* a new set that only this thread holds
IngestLoad ==
    /\ pc[IngestThread] = "load"
    /\ \E file \in KeywordFiles : heap' = Append(heap, LoadedOrDefault(file))
    /\ call' = [call EXCEPT ![IngestThread].kws = Len(heap) + 1]
    /\ Goto(IngestThread, "publish")
    /\ UNCHANGED <<farm_keywords, pipeline, args, result, vector_store, ingested>>

\* app.state.farm_keywords = kws, and the call returns status ok
IngestPublish ==
    /\ pc[IngestThread] = "publish"
    /\ farm_keywords' = call[IngestThread].kws
    /\ ingested' = [kws |-> call[IngestThread].kws, vector_store |-> vector_store]
    /\ call' = [call EXCEPT ![IngestThread].response = "ok"]
    /\ Goto(IngestThread, "done")
    /\ UNCHANGED <<pipeline, args, result, heap, vector_store>>

IngestReturn ==
    /\ pc[IngestThread] = "done"
    /\ call' = [call EXCEPT ![IngestThread] = NoIngestCall]
    /\ Goto(IngestThread, "idle")
    /\ UNCHANGED <<farm_keywords, pipeline, args, result, threaded>>

NextThreaded ==
    \/ \E t \in RequestThreads : RequestStart(t)
    \/ \E t \in RequestThreads : ReadKeywords(t)
    \/ \E t \in RequestThreads : WriteKeywords(t)
    \/ \E t \in RequestThreads : Gate(t)
    \/ \E t \in RequestThreads : CheckPipeline(t)
    \/ \E t \in RequestThreads : ConstructPipeline(t)
    \/ \E t \in RequestThreads : InstallPipeline(t)
    \/ \E t \in RequestThreads : RunPipeline(t)
    \/ \E t \in RequestThreads : RequestReturn(t)
    \/ IngestBuild
    \/ IngestReset
    \/ IngestLoad
    \/ IngestPublish
    \/ IngestReturn

SpecThreaded == InitThreaded /\ [][NextThreaded]_vars

(***************************************************************************)
(* Properties of the relevance gate.                                       *)
(***************************************************************************)
FreeTextCall == call.endpoint = "summarise"

CsvCall == call.endpoint = "summarise_csv"

HintPresent ==
    \/ Truthy(call.crop_hint) \/ Truthy(call.res.crop_hint)
    \/ Truthy(call.location_hint) \/ Truthy(call.res.location_hint)

RuleOk ==
    \/ call.res.agri_hits >= 1
    \/ call.res.domain_hits >= call.env.min_hits
    \/ HintPresent /\ (call.res.op_hits >= call.env.min_op_hits \/ call.res.domain_hits >= 1)

ShouldBlock ==
    /\ call.env.block_nonfarm
    /\ call.res.non_farm_hits >= call.env.nonfarm_block_min
    /\ call.res.agri_hits = 0

\* The analysis of the text the CSV gate is asked about (the rendering of the
\* field map), whether or not the gate got as far as using it.
CsvAnalysis == call.res

CoreAbsent ==
    \A k \in {"site", "crop", "operation", "pesticide", "fertiliser"} :
        ~Truthy(QaGet(call.qa, k))

\* C1: the free-text gate accepts exactly when should_block is false and the
\* semantic verdict is affirmative or rule_ok holds.
C1_FreeTextDecision ==
    FreeTextCall =>
        (call.accepted <=> (~ShouldBlock /\ (call.sem.is_semantic_ok \/ RuleOk)))

\* A request accepted on the semantic verdict alone: no rule fires, no veto.
C1_Witness ==
    /\ FreeTextCall
    /\ call.accepted
    /\ call.sem.is_semantic_ok
    /\ ~RuleOk
    /\ call.res.non_farm_hits >= 1

\* C2 as claimed: with agri_hits >= 1 neither gate rejects.
C2_WhitelistNeverRejected ==
    /\ FreeTextCall => (call.accepted \/ call.res.agri_hits < 1)
    /\ CsvCall => (call.accepted \/ CsvAnalysis.agri_hits < 1)

\* C2 as amended: with agri_hits >= 1 the free-text gate does not reject, and
\* the CSV gate does not reject unless its memo-only pre-check fires.
C2_WhitelistOverride ==
    /\ FreeTextCall => (call.accepted \/ call.res.agri_hits < 1)
    /\ CsvCall /\ call.gate.stage # "memo_only" =>
          (call.accepted \/ CsvAnalysis.agri_hits < 1)

\* A field map that reaches the rules with a whitelist hit, non-farm hits at
\* the block minimum and no affirmative semantic verdict, and is accepted.
C2_Witness ==
    /\ CsvCall
    /\ call.gate.stage = "rules"
    /\ call.res.agri_hits >= 1
    /\ call.res.non_farm_hits >= 2
    /\ call.res.domain_hits = 0
    /\ ~call.gate.is_semantic_ok
    /\ call.accepted

\* C3: a strong non-farm veto (blocking enabled, non_farm_hits at or above
\* the block minimum, agri_hits == 0) makes both gates reject, whatever the
\* semantic verdict.
C3_VetoAlwaysRejects ==
    /\ FreeTextCall /\ ShouldBlock => ~call.accepted
    /\ CsvCall =>
          (~call.accepted
             \/ ~(/\ DefaultEnv.block_nonfarm
                  /\ CsvAnalysis.non_farm_hits >= DefaultEnv.nonfarm_block_min
                  /\ CsvAnalysis.agri_hits = 0))

\* C4: when neither the memo-only pre-check nor the lenient shortcut fires,
\* the CSV gate decides as the free-text decision does under the default
\* thresholds, on the analysis and semantic verdict of the rendered text.
C4_CsvGateEqualsFreeTextGate ==
    CsvCall /\ call.gate.stage = "rules" =>
        call.accepted = is_related_final(call.res, call.gate.is_semantic_ok,
                                         None, None, DefaultEnv)

\* C5: a memo-only record whose memo matches a non-farm memo pattern is
\* rejected without consulting the semantic collaborator, whatever the
\* lenient flag, the semantic verdict and the hit counts.
C5_MemoOnlyNonfarmRejected ==
    (/\ CsvCall
     /\ Truthy(QaGet(call.qa, "memo"))
     /\ CoreAbsent
     /\ \E k \in DOMAIN NONFARM_MEMO_HARD_RE :
           Search(NONFARM_MEMO_HARD_RE[k].re, QaGet(call.qa, "memo"),
                  NONFARM_MEMO_HARD_RE[k].ic))
    => /\ ~call.accepted
       /\ call.response = REJECT_MSG
       /\ ~call.gate.semantic_called

\* Such a record, sent with the lenient flag on and an embedding that would
\* have said yes.
C5_Witness ==
    /\ CsvCall
    /\ QaGet(call.qa, "memo") = KimchiMemo
    /\ CoreAbsent
    /\ call.csv_gate_lenient
    /\ ~call.embed.fails /\ call.embed.pos_sim - call.embed.neg_sim >= INTENT_MARGIN
    /\ call.response = REJECT_MSG

\* C6: with the lenient flag on, a record with a populated crop or operation
\* is accepted.
C6_LenientAccepts ==
    (/\ CsvCall
     /\ call.csv_gate_lenient
     /\ Truthy(QaGet(call.qa, "crop")) \/ Truthy(QaGet(call.qa, "operation")))
    => call.accepted

\* A lenient accept of a record whose memo is a recipe and whose only other
\* field is the operation, the embedding failing.
C6_Witness ==
    /\ CsvCall
    /\ call.csv_gate_lenient
    /\ Truthy(QaGet(call.qa, "operation"))
    /\ ~Truthy(QaGet(call.qa, "crop"))
    /\ QaGet(call.qa, "memo") = KimchiMemo
    /\ call.embed.fails
    /\ call.accepted

\* C7: a failing semantic collaborator never fails the request; the gate
\* decides as it does on the verdict (false, 0.0, 0.0).
C7_SemanticFailureSwallowed ==
    /\ FreeTextCall /\ call.embed.fails =>
          /\ call.response # "HTTP 500"
          /\ call.sem = [raised |-> FALSE, is_semantic_ok |-> FALSE,
                         pos_sim |-> 0, neg_sim |-> 0]
          /\ call.accepted <=> (~ShouldBlock /\ RuleOk)
    /\ CsvCall /\ call.embed.fails =>
          /\ call.response # "HTTP 500"
          /\ ~call.gate.raised
          /\ call.gate.stage = "rules" =>
                /\ ~call.gate.is_semantic_ok
                /\ call.accepted <=>
                      (\/ call.res.agri_hits >= 1
                       \/ call.res.domain_hits >= 1
                       \/ call.res.op_hits >= 1)

\* A non-empty text whose embedding fails and which the rules accept.
C7_Witness ==
    /\ FreeTextCall
    /\ call.embed.fails
    /\ Strip(call.stt_text) # <<>>
    /\ call.accepted
    /\ call.response = "FarmLog"

\* C8 as claimed: non_farm_hits >= 1 with domain_hits == 0 and agri_hits == 0
\* is rejected.
C8_NonFarmTextRejected ==
    (/\ FreeTextCall
     /\ call.res.non_farm_hits >= 1
     /\ call.res.domain_hits = 0
     /\ call.res.agri_hits = 0)
    => ~call.accepted

\* C8 as amended: such a text is rejected when the veto applies (blocking
\* enabled and non_farm_hits at or above the block minimum), or when the
\* semantic verdict is not affirmative and rule_ok is false; the kimchi-stew
\* text has non_farm_hits >= 2 and is rejected under the default thresholds
\* whatever the semantic verdict.
C8_NonFarmTextRejectedUnderVeto ==
    /\ (/\ FreeTextCall
        /\ call.res.non_farm_hits >= 1
        /\ call.res.domain_hits = 0
        /\ call.res.agri_hits = 0
        /\ ShouldBlock \/ (~call.sem.is_semantic_ok /\ ~RuleOk))
       => ~call.accepted
    /\ (/\ FreeTextCall
        /\ call.stt_text = KimchiStewText
        /\ call.env = DefaultEnv
        /\ call.res.domain_hits = 0)
       => /\ call.res.non_farm_hits >= 2
          /\ call.res.agri_hits = 0
          /\ ~call.accepted

\* The kimchi-stew text, rejected although the semantic verdict is yes.
C8_Witness ==
    /\ FreeTextCall
    /\ call.stt_text = KimchiStewText
    /\ call.env = DefaultEnv
    /\ call.sem.is_semantic_ok
    /\ call.res.domain_hits = 0
    /\ call.response = REJECT_MSG

(***************************************************************************)
(* Properties of analyse.                                                  *)
(***************************************************************************)
AnalyseDone == result.fn = "analyse"

OccursIn(kw, text) ==
    kw # <<>> /\ (Contains(Strip(text), kw)
                    \/ Contains(StrLower(Strip(text)), StrLower(kw)))

\* C9: 0 <= domain_hits <= |K|, one hit per keyword that occurs in the text
\* however often it occurs, and no hit for the empty keyword set.
C9_DomainHitsBounded ==
    AnalyseDone =>
        /\ result.res.domain_hits >= 0
        /\ result.res.domain_hits <= Cardinality(args.domain_keywords)
        /\ result.res.domain_hits =
              Cardinality({kw \in args.domain_keywords : OccursIn(kw, args.stt_text)})
        /\ args.domain_keywords = {} => result.res.domain_hits = 0

\* 배추 배추 against the single keyword 배추: one hit.
C9_Witness ==
    /\ AnalyseDone
    /\ args.stt_text = <<"bae","chu"," ","bae","chu">>
    /\ args.domain_keywords = {<<"bae","chu">>}
    /\ result.res.domain_hits = 1

CropsIn(text) == {k \in DOMAIN CROPS : Contains(Strip(text), CROPS[k])}

\* C10: the crop hint is grape (포도) when the text contains the varietal
\* 샤인머스켓, otherwise the first crop of the priority list that occurs in
\* the text, and absent exactly when no listed crop occurs.
C10_CropHint ==
    AnalyseDone =>
        LET hint == result.res.crop_hint
            found == CropsIn(args.stt_text)
        IN /\ Contains(Strip(args.stt_text), <<"sya","xin","meo","seu","kes">>) => hint = <<"po","do">>
           /\ (~Contains(Strip(args.stt_text), <<"sya","xin","meo","seu","kes">>) /\ found # {}) =>
                 (\E k \in found : hint = CROPS[k] /\ \A j \in found : k <= j)
           /\ hint = None <=> found = {}

\* 배추 샤인머스켓: the varietal wins over a crop that comes first in the
\* text and in the list.
C10_Witness ==
    /\ AnalyseDone
    /\ args.stt_text = <<"bae","chu"," ","sya","xin","meo","seu","kes">>
    /\ result.res.crop_hint = <<"po","do">>

(***************************************************************************)
(* Properties of the date hint.                                            *)
(***************************************************************************)
DateText == Strip(args.stt_text)

SomeDatePattern == \E k \in DOMAIN DATE_PATTERNS : DateSearch(DATE_PATTERNS[k], DateText).ok

RelativeDayWord == Contains(DateText, <<"xo","neul">>) \/ Contains(DateText, <<"xeo","je">>)

\* C11: the date hint comes from the fallback tiers in the order date
\* pattern, relative-day word (the current date), default date; a text with a
\* relative-day word and no date pattern yields the current date even when a
\* default date is supplied.
C11_DateTiers ==
    AnalyseDone =>
        /\ (~SomeDatePattern /\ RelativeDayWord) => result.res.date_hint = Today(args.now)
        /\ (~SomeDatePattern /\ ~RelativeDayWord) => result.res.date_hint = args.default_date
        /\ SomeDatePattern =>
              result.res.date_hint = PatternDate(DateText, args.default_date, args.now)

\* 배추 오늘 with the default date 2024-12-31: the hint is the default date.
C11_DefaultBeforeRelative ==
    /\ AnalyseDone
    /\ args.stt_text = <<"bae","chu"," ","xo","neul">>
    /\ args.default_date # None
    /\ result.res.date_hint = args.default_date
    /\ result.res.date_hint # Today(args.now)

ValidMonthDay(date) ==
    /\ ToInt(SubSeq(date, 6, 7)) \in 1..12
    /\ ToInt(SubSeq(date, 9, 10)) \in 1..31

\* C12: when the first date pattern that matches captures an invalid month
\* or day, the match is discarded: the hint is the current date for a
\* relative-day word, else the default date, never the invalid date.
C12_InvalidDateDiscarded ==
    (AnalyseDone /\ Truthy(result.res.date_hint)) =>
        \/ ValidMonthDay(result.res.date_hint)
        \/ result.res.date_hint \in {Today(args.now), args.default_date}

\* 2025-13-45: the hint is the string 2025-13-45.
C12_InvalidDateKept ==
    /\ AnalyseDone
    /\ args.stt_text = <<"2","0","2","5","-","1","3","-","4","5">>
    /\ result.res.date_hint = <<"2","0","2","5","-","1","3","-","4","5">>

(***************************************************************************)
(* Properties of the field normalizers.                                    *)
(***************************************************************************)
Normalizers ==
    {"normalize_site", "normalize_crop", "normalize_operation", "normalize_agri_input",
     "summarize_memo"}

\* C13: no field normalizer returns an empty string: the result is None or
\* a non-empty string, also for inputs that become empty after cleanup, and
\* a None or empty input yields None.
C13_NeverEmptyString ==
    result.fn \in Normalizers =>
        /\ result.out # <<>>
        /\ args.s \in {None, <<>>} => result.out = None

\* C14: normalize_crop is idempotent: applied to its own result it returns
\* that result.
C14_CropIdempotent ==
    result.fn = "normalize_crop_again" => result.out = result.first

AgriDone == result.fn = "normalize_agri_input"

NoneIsh(c) == SearchStart(NONEISH_RE, c, TRUE) # 0

DidNotDo(c) == SearchStart(NEGATION_RE, c, FALSE) # 0

StaleReference(c) == SearchStart(STALE_RE, c, FALSE) # 0

\* C16 as stated: None exactly for the inputs that are none-ish or a
\* did-not-do negation after cleanup, the cleaned string for every other
\* non-empty input.
C16_NoneOnlyForNegation ==
    (AgriDone /\ Truthy(args.s)) =>
        LET c == AgriCleaned(args.s)
        IN result.out = IF NoneIsh(c) \/ DidNotDo(c) THEN None ELSE c

\* C16: normalize_agri_input returns None for every input that, after removal
\* of a leading interjection, a trailing speech ending and the context
\* words, is none-ish, a did-not-do negation, a stale reference or empty;
\* for every other non-empty input it returns the cleaned string.
C16_NoneForNegationStaleEmpty ==
    (AgriDone /\ Truthy(args.s)) =>
        LET c == AgriCleaned(args.s)
        IN result.out = IF NoneIsh(c) \/ DidNotDo(c) \/ StaleReference(c) \/ c = <<>>
                        THEN None ELSE c

\* 이번엔 안 쳤어요: None.
C16_Witness ==
    /\ AgriDone
    /\ args.s = <<"xi","beon","xen"," ","xan"," ","chyeoss","xeo","xyo">>
    /\ AgriCleaned(args.s) = <<"xan"," ","chyeoss","xeo">>
    /\ result.out = None

MemoDone == result.fn = "summarize_memo"

MatchesNonFarm(memo) ==
    \E k \in DOMAIN NONFARM_MEMO_RE_LIST :
        Search(NONFARM_MEMO_RE_LIST[k].re, memo, NONFARM_MEMO_RE_LIST[k].ic)

\* C17: summarize_memo is None for every memo that matches a non-farm-topic
\* pattern, whatever the crop and the operation, also when the memo carries
\* farm terms.
C17_NonFarmMemoIsNone ==
    (MemoDone /\ Truthy(args.s) /\ MatchesNonFarm(args.s)) => result.out = None

\* 수확 500g with the crop 포도 and the operation 수확: None.
C17_Witness ==
    /\ MemoDone
    /\ args.s = <<"su","hwag"," ","5","0","0","g">>
    /\ args.crop = <<"po","do">>
    /\ args.op = <<"su","hwag">>
    /\ result.out = None

Keep(cond, tok) == IF cond THEN <<tok>> ELSE <<>>

SugarTag(t) ==
    IF SearchStart(BRIX_RE, t, TRUE) # 0
    THEN <<<<"dang","do"," ">> \o Group0(NUMBER_RE, Group0(BRIX_RE, t, TRUE), FALSE) \o <<" ","B","r","i","x">>>>
    ELSE Keep(Contains(t, <<"dang","do">>), <<"dang","do"," ","nop","xeum">>)

WeatherTag(t) ==
    Keep(SearchStart(WEATHER_RE, t, FALSE) # 0,
         IF Contains(t, <<"malg">>) THEN <<"nal","ssi"," ","joh","xeum">> ELSE <<"nal","ssi">>)

\* crop, harvest, cultivation unless skip, pest, sugar content, weather
TagsInOrder(t, crop, skipCultivation) ==
    Keep(Truthy(crop), crop)
       \o Keep(Contains(t, <<"su","hwag">>), <<"su","hwag">>)
       \o Keep(AnyIn(t, {<<"jab","cho">>, <<"je","cho">>, <<"xye","cho">>, <<"pul">>}) /\ ~skipCultivation, <<"jae","bae","gwan","ri">>)
       \o Keep(AnyIn(t, {<<"bang","je">>, <<"xyag","je">>, <<"sal","po">>, <<"jin","dis","mul">>, <<"tan","jeo">>,
                         <<"xyeog","byeong">>, <<"bo","reu","do">>}), <<"byeong","hae","chung">>)
       \o SugarTag(t)
       \o WeatherTag(t)

WithOperation(tags, op) == tags \o Keep(Truthy(op) /\ ~InSeq(op, tags), op)

MemoSummarised == MemoDone /\ Truthy(args.s) /\ ~MatchesNonFarm(args.s)

\* C18 as stated: the cultivation tag is omitted only when the operation is
\* the cultivation-management category.
C18_TokensInOrder ==
    MemoSummarised =>
        \A t \in {Cleanup(args.s)} :
        \A tokens \in {WithOperation(TagsInOrder(t, args.crop, args.op = <<"jae","bae","gwan","ri">>),
                                     args.op)} :
           tokens # <<>> => result.out = JoinWith(tokens, <<" ","middot"," ">>)

\* C18: for a non-empty memo that matches no non-farm pattern, summarize_memo
\* returns the collected tokens joined by a middle dot in the order crop,
\* harvest tag, cultivation tag (omitted when the operation, or the crop
\* token, is already the cultivation-management category), pest tag,
\* sugar-content tag, weather tag and last the operation if given and not
\* among the tokens; it is never None when a token is collected.
C18_TokensInOrderUnlessPresent ==
    MemoSummarised =>
        \A t \in {Cleanup(args.s)} :
        \A tokens \in {WithOperation(TagsInOrder(t, args.crop,
                                                 <<"jae","bae","gwan","ri">> \in {args.op, args.crop}),
                                     args.op)} :
           tokens # <<>> =>
              /\ result.out # None
              /\ result.out = JoinWith(tokens, <<" ","middot"," ">>)

\* 수확 18 Brix with the crop 포도 and the operation 병해충관리:
\* 포도 · 수확 · 당도 18 Brix · 병해충관리.
C18_Witness ==
    /\ MemoDone
    /\ args.s = <<"su","hwag"," ","1","8"," ","B","r","i","x">>
    /\ args.crop = <<"po","do">>
    /\ args.op = <<"byeong","hae","chung","gwan","ri">>
    /\ result.out = <<"po","do"," ","middot"," ","su","hwag"," ","middot"," ","dang","do"," ","1","8"," ","B","r","i","x"," ","middot"," ","byeong","hae","chung","gwan","ri">>

(***************************************************************************)
(* Properties of the CSV record parser.                                    *)
(***************************************************************************)
CsvDone == result.fn = "read_qa_csv"

CsvLines == NonBlank(args.file)

CanonicalFields == {"site", "crop", "operation", "pesticide", "fertiliser", "memo"}

Keys(out) == {out[i][1] : i \in DOMAIN out}

QnaHeader ==
    LET labels == {StrLower(Cells(CsvLines[1])[i]) : i \in DOMAIN Cells(CsvLines[1])}
    IN \/ {<<"q","u","e","s","t","i","o","n">>, <<"a","n","s","w","e","r">>} \subseteq labels
       \/ {<<"f","i","e","l","d">>, <<"v","a","l","u","e">>} \subseteq labels

AliasHeader == \E i \in DOMAIN Cells(CsvLines[1]) : Cells(CsvLines[1])[i] \in AllAliases

HasComma(row) == \E i \in DOMAIN row : row[i] = ","

FirstComma(row) == CHOOSE i \in DOMAIN row : row[i] = "," /\ \A j \in 1..(i - 1) : row[j] # ","

LabelOf(row) == IF HasComma(row) THEN SubSeq(row, 1, FirstComma(row) - 1) ELSE row

\* the row after its first comma
ValueAfterFirstComma(row) ==
    IF HasComma(row) THEN Strip(SubSeq(row, FirstComma(row) + 1, Len(row))) ELSE <<>>

\* the trimmed cells after the first, joined by commas
ValueOfTrimmedCells(row) == Strip(JoinWith(Tail(Cells(row)), <<",">>))

\* every field holds the value of the last row that is labelled with it, and
\* no other field has an entry
RowsStored(out, rows, needComma, ValueOf(_)) ==
    \A f \in CanonicalFields :
        LET R == {i \in DOMAIN rows : /\ needComma => HasComma(rows[i])
                                      /\ _canon_field(LabelOf(rows[i])) = f}
        IN IF R = {} THEN f \notin Keys(out)
           ELSE /\ f \in Keys(out)
                /\ QaGet(out, f) = OrNone(ValueOf(rows[CHOOSE i \in R : \A j \in R : j <= i]))

\* every field holds the cell of the data row under one of its alias labels
HeaderRowStored(out) ==
    LET header == Cells(CsvLines[1])
        vals == IF Len(CsvLines) >= 2 THEN Cells(CsvLines[2]) ELSE <<>>
    IN \A k \in DOMAIN FIELD_ALIASES :
          LET cols == {i \in DOMAIN header :
                          i <= Len(vals) /\ header[i] \in FIELD_ALIASES[k].aliases}
          IN IF cols = {} THEN FIELD_ALIASES[k].field \notin Keys(out)
             ELSE \E i \in cols : QaGet(out, FIELD_ALIASES[k].field) = OrNone(vals[i])

C20_OperationCanonicalized ==
    (CsvDone /\ "operation" \in Keys(result.out) /\ QaGet(result.out, "operation") # None) =>
        QaGet(result.out, "operation") = _canon_op_free(QaGet(result.out, "operation"))

(***************************************************************************)
(* Properties of the rendering and the parser together.                    *)
(***************************************************************************)
\* the populated entries of a field map: None, blank and absent are equal
Populated(qa) == {qa[i] : i \in {j \in DOMAIN qa : Truthy(qa[j][2])}}

\* C21: parsing the canonical rendering of a field map (label: value pairs
\* joined by " / ") recovers the populated entries of the map.
C21_RoundTrip ==
    result.fn = "round_trip" => Populated(result.out) = Populated(args.qa)

(***************************************************************************)
(* Properties of keyword loading.                                          *)
(***************************************************************************)
KeywordsLoaded == result.fn = "_load_farm_keywords"

\* the line up to its first #
BeforeHash(ln) ==
    IF \E i \in DOMAIN ln : ln[i] = "#"
    THEN SubSeq(ln, 1, (CHOOSE i \in DOMAIN ln : ln[i] = "#" /\ \A j \in 1..(i - 1) : ln[j] # "#") - 1)
    ELSE ln

Separator(c) == c = "," \/ c \in Spaces

\* the maximal runs of characters of s that are neither commas nor blanks
EntriesOf(s) ==
    {SubSeq(s, p[1], p[2]) :
        p \in {q \in (DOMAIN s) \X (DOMAIN s) :
                  /\ q[1] <= q[2]
                  /\ \A i \in q[1]..q[2] : ~Separator(s[i])
                  /\ (q[1] = 1 \/ Separator(s[q[1] - 1]))
                  /\ (q[2] = Len(s) \/ Separator(s[q[2] + 1]))}}

CountedLine(ln) == Strip(ln) # <<>> /\ ln[1] # "#"

\* C22: loading the keyword list never raises; a missing or unreadable file
\* yields the empty set, and a readable file yields exactly the entries of
\* its lines that are not blank and do not start with #, each line cut at
\* its first # and split on commas and blanks.
C22_KeywordLoading ==
    KeywordsLoaded =>
        /\ ~result.raised
        /\ result.out =
              IF args.exists /\ args.readable
              THEN UNION {EntriesOf(BeforeHash(args.lines[i])) :
                             i \in {j \in DOMAIN args.lines : CountedLine(args.lines[j])}}
              ELSE {}

\* the file # 영농 / REI, 배추  # 작물 / 사과,,포도 배 yields REI, 배추, 사과,
\* 포도 and 배
C22_Witness ==
    /\ KeywordsLoaded
    /\ args.readable
    /\ args.lines = << <<"#"," ","xyeong","nong">>, <<"R","E","I",","," ","bae","chu"," "," ","#"," ","jag","mul">>, <<"sa","gwa",",",",","po","do"," ","bae">> >>
    /\ result.out = {<<"R","E","I">>, <<"bae","chu">>, <<"sa","gwa">>, <<"po","do">>, <<"bae">>}

(***************************************************************************)
(* Properties of the operation cascade.                                    *)
(***************************************************************************)
OperationDone == result.fn = "normalize_operation" /\ Truthy(args.s)

\* harvest, pruning, weeding, pest control, sowing/transplanting, other
\* cultivation terms, each with its category
OperationFamilies ==
    << [terms |-> {<<"su","hwag">>, <<"tta","gi">>, <<"geo","dwo">>, <<"geo","dum">>, <<"su","hwag","ham">>, <<"su","hwag","haess">>}, category |-> <<"su","hwag">>],
       [terms |-> {<<"ga","ji","chi","gi">>, <<"jeon","jeong">>}, category |-> <<"jae","bae","gwan","ri">>],
       [terms |-> {<<"jab","cho">>, <<"je","cho">>, <<"xye","cho">>, <<"pul"," ","ppob">>, <<"pul","ppob">>}, category |-> <<"jae","bae","gwan","ri">>],
       [terms |-> {<<"bang","je">>, <<"xyag","je">>, <<"sal","po">>, <<"jin","dis","mul">>, <<"tan","jeo">>, <<"xyeog","byeong">>, <<"bo","reu","do">>},
        category |-> <<"byeong","hae","chung","gwan","ri">>],
       [terms |-> {<<"pa","jong">>, <<"jeong","sig">>, <<"xi","sig">>}, category |-> <<"pa","jong","middot","jeong","sig">>],
       [terms |-> {<<"bong","ji">>, <<"xal","sokk","gi">>, <<"chag","saeg">>, <<"gwan","su">>, <<"hanja_gwan","hanja_su">>, <<"jeom","jeog">>,
                   <<"xyang","xaeg">>, <<"si","bi">>, <<"chu","bi">>, <<"hwan","gi">>, <<"cha","gwang">>},
        category |-> <<"jae","bae","gwan","ri">>] >>

FamiliesIn(text) ==
    {k \in DOMAIN OperationFamilies : \E w \in OperationFamilies[k].terms : Contains(text, w)}

EarliestFamily(text) == CHOOSE k \in FamiliesIn(text) : \A j \in FamiliesIn(text) : k <= j

\* the input after cleanup and without the word 작업
CleanedOperation == Strip(Replace(Cleanup(args.s), <<"jag","xeob">>, <<>>))

C24_ParserDeterministic ==
    CsvDone => read_qa_csv(args.file) = {result.out}

(***************************************************************************)
(* Properties of the service under threads.                                *)
(***************************************************************************)
InAnalyse(t) == pc[t] = "in_analyse"

Generating(t) == pc[t] \in {"check_pipeline", "construct", "install", "run"}

\* the set object thread t handed to analyse
Lexicon(t) == heap[call[t].domain_kws]

\* C23: every analyse call works on one complete keyword set: the set it
\* was handed is a set some startup or reload published, no step of another
\* thread changes it during the call, and the domain hits the call returns
\* are the hits against that set.
C23_CompleteLexicon ==
    /\ [](\A t \in RequestThreads : InAnalyse(t) => Lexicon(t) \in ThreadKeywordSets)
    /\ [][\A t \in RequestThreads :
             (InAnalyse(t) /\ pc'[t] = pc[t]) => heap'[call[t].domain_kws] = Lexicon(t)]_vars
    /\ [][\A t \in RequestThreads :
             (InAnalyse(t) /\ pc'[t] # pc[t]) =>
                call'[t].domain_hits = AnalyseTable[call[t].stt_text, Lexicon(t)].domain_hits]_vars

\* a reload published another set while a request is inside analyse
C23_Witness ==
    \E t \in RequestThreads :
       /\ InAnalyse(t)
       /\ ingested.kws = farm_keywords
       /\ farm_keywords # call[t].domain_kws
       /\ heap[farm_keywords] # Lexicon(t)

\* C26: the pipeline is constructed or run only by a request the gate has
\* accepted; a rejected request answers the rejection message, has not
\* constructed or run a pipeline, and its rejection leaves the singleton
\* as it was.
C26_GateBeforeGeneration ==
    /\ [](\A t \in RequestThreads : Generating(t) => call[t].accepted)
    /\ [](\A t \in RequestThreads :
             (pc[t] = "done" /\ ~call[t].accepted) =>
                /\ call[t].response = REJECT_MSG
                /\ call[t].p = NonePipeline
                /\ call[t].ran_on = NonePipeline)
    /\ [][\A t \in RequestThreads :
             (InAnalyse(t) /\ pc'[t] = "done") => pipeline' = pipeline]_vars

\* a request was rejected while the singleton another request constructed
\* stays installed
C26_Witness ==
    \E t \in RequestThreads :
       /\ pc[t] = "done"
       /\ call[t].response = REJECT_MSG
       /\ pipeline # NonePipeline

\* C28: a reload is never lost: when no request is in flight the
\* process-wide keyword set is the set of the last reload that returned,
\* and a request that started after that reload returned analyses against
\* that set.
C28_ReloadNotLost ==
    ingested.kws # 0 =>
       /\ (\A t \in RequestThreads : pc[t] = "idle") => heap[farm_keywords] = heap[ingested.kws]
       /\ \A t \in RequestThreads :
             (InAnalyse(t) /\ call[t].started_after = ingested) => Lexicon(t) = heap[ingested.kws]

\* C29: a request that reaches _pipeline.run finds a constructed pipeline.
C29_RunOnConstructedPipeline ==
    \A t \in RequestThreads :
       (pc[t] = "done" /\ call[t].accepted) => call[t].ran_on # NonePipeline

\* C30: the singleton is never a pipeline that loaded the vector store
\* before the last /ingest that returned rebuilt it, and a request that
\* started after an /ingest returned runs on a pipeline constructed after
\* that rebuild.
C30_PipelineAfterIngest ==
    /\ pipeline # NonePipeline => pipeline.vs >= ingested.vector_store
    /\ \A t \in RequestThreads :
          (pc[t] = "done" /\ call[t].ran_on # NonePipeline) =>
             call[t].ran_on.vs >= call[t].started_after.vector_store

(***************************************************************************)
(* Properties of the keyword set of the service.                           *)
(***************************************************************************)
\* C25: the process-wide keyword set is never empty after startup, and the
\* keyword set a summarise request hands to analyse or to gate_csv_qa is
\* never empty.
C25_KeywordsNeverEmpty ==
    /\ farm_keywords # {}
    /\ (FreeTextCall \/ CsvCall) => call.domain_kws # {}

\* the keyword file gave no keyword, and a CSV request is gated against the
\* built-in keywords
C25_Witness ==
    /\ CsvCall
    /\ call.domain_kws = DEFAULT_FARM_KEYWORDS
    /\ farm_keywords = DEFAULT_FARM_KEYWORDS

====
